---------------------------- MODULE Spec2Model ----------------------------
(***************************************************************************)
(* A model of the vault service broker: the tenant lifecycle engine        *)
(* (Provision, Deprovision, Bind, Unbind), the mount coordinator, the      *)
(* policy renderer, the persistence codec, Start/Stop and the renewer      *)
(* tasks.  Strings are TLA+ strings; paths are built by concatenation as   *)
(* the Go code builds them.                                                *)
(***************************************************************************)
EXTENDS Integers, Sequences, FiniteSets, TLC

(***************************************************************************)
(* Strings                                                                 *)
(***************************************************************************)

\* The i-th character of s, as a one-character string.
Char(s, i) == SubSeq(s, i, i)

\* strings.Contains(s, c) for a one-character c.
HasChar(s, c) == \E i \in 1..Len(s) : Char(s, i) = c

RECURSIVE TrimLeft(_, _)
TrimLeft(s, c) ==
    IF Len(s) > 0 /\ Char(s, 1) = c THEN TrimLeft(SubSeq(s, 2, Len(s)), c) ELSE s

RECURSIVE TrimRight(_, _)
TrimRight(s, c) ==
    IF Len(s) > 0 /\ Char(s, Len(s)) = c
    THEN TrimRight(SubSeq(s, 1, Len(s) - 1), c) ELSE s

\* strings.Trim(s, "/"): every leading and trailing c removed.
Trim(s, c) == TrimRight(TrimLeft(s, c), c)

\* html/template escapes every value it interpolates into text.
EscapeChar(c) ==
    CASE c = "&" -> "&amp;"
      [] c = "<" -> "&lt;"
      [] c = ">" -> "&gt;"
      [] c = "'" -> "&#39;"
      [] c = "\"" -> "&#34;"
      [] c = "+" -> "&#43;"
      [] OTHER   -> c

RECURSIVE HTMLEscape(_)
HTMLEscape(s) ==
    IF Len(s) = 0 THEN ""
    ELSE EscapeChar(Char(s, 1)) \o HTMLEscape(SubSeq(s, 2, Len(s)))

\* The set of elements of a sequence.
Range(q) == { q[i] : i \in 1..Len(q) }

(***************************************************************************)
(* Mount naming (models.go)                                                *)
(***************************************************************************)

KV == "generic"
Transit == "transit"

\* A PathType that does not tell the engine kinds apart.
PathTypeSecretOnly(s) == "secret"

PathType(s) ==
    CASE s = KV      -> "secret"
      [] s = Transit -> "transit"
      [] OTHER       -> ""

Mount(abs, name, guid, type) ==
    [AbsolutePath |-> abs, Name |-> name, GUID |-> guid, Type |-> type]

Path(m) ==
    IF m.AbsolutePath # "" THEN "/cf/" \o m.AbsolutePath
    ELSE LET path == IF m.Name # "" THEN m.Name \o "-" \o m.GUID ELSE m.GUID
         IN  "/cf/" \o path \o "/" \o PathType(m.Type)

(***************************************************************************)
(* Instance details and the policy renderer                                *)
(***************************************************************************)

Details(on, og, sn, sg, in, ig) ==
    [OrganizationName |-> on, OrganizationGUID |-> og,
     SpaceName |-> sn, SpaceGUID |-> sg,
     ServiceInstanceName |-> in, ServiceInstanceGUID |-> ig]

NamesPopulated(d) ==
    IF d.OrganizationName = "" THEN FALSE
    ELSE IF d.SpaceName = "" THEN FALSE
    ELSE IF d.ServiceInstanceName = "" THEN FALSE
    ELSE TRUE

Block(path, caps) == [path |-> path, capabilities |-> caps]

ListOnly == <<"list">>
ReadWrite == <<"create", "read", "update", "delete", "list">>
ReadOnly == <<"read", "list">>

\* The rendered template, block by block, every field HTML-escaped.
ServicePolicyTemplateWithoutNames(d) ==
    LET ig == HTMLEscape(d.ServiceInstanceGUID)
        sg == HTMLEscape(d.SpaceGUID)
        og == HTMLEscape(d.OrganizationGUID)
    IN << Block("cf/" \o ig, ListOnly),
          Block("cf/" \o ig \o "/*", ReadWrite),
          Block("cf/" \o sg, ListOnly),
          Block("cf/" \o sg \o "/*", ReadWrite),
          Block("cf/" \o og, ListOnly),
          Block("cf/" \o og \o "/*", ReadOnly) >>

ServicePolicyTemplateWithNames(d) ==
    LET ig == HTMLEscape(d.ServiceInstanceGUID)
        sg == HTMLEscape(d.SpaceGUID)
        og == HTMLEscape(d.OrganizationGUID)
        in == HTMLEscape(d.ServiceInstanceName)
        sn == HTMLEscape(d.SpaceName)
        on == HTMLEscape(d.OrganizationName)
    IN << Block("cf/" \o in \o "-" \o ig, ListOnly),
          Block("cf/" \o ig, ListOnly),
          Block("cf/" \o in \o "-" \o ig \o "/*", ReadWrite),
          Block("cf/" \o ig \o "/*", ReadWrite),
          Block("cf/" \o sn \o "-" \o sg, ListOnly),
          Block("cf/" \o sg, ListOnly),
          Block("cf/" \o sn \o "-" \o sg \o "/*", ReadWrite),
          Block("cf/" \o sg \o "/*", ReadWrite),
          Block("cf/" \o on \o "-" \o og, ListOnly),
          Block("cf/" \o og, ListOnly),
          Block("cf/" \o on \o "-" \o og \o "/*", ReadOnly),
          Block("cf/" \o og \o "/*", ReadOnly) >>

GeneratePolicy(d) ==
    IF ~NamesPopulated(d) THEN ServicePolicyTemplateWithoutNames(d)
    ELSE ServicePolicyTemplateWithNames(d)

\* The capabilities a policy document grants on a path: those of every block
\* written for that path.
Grants(doc, p) ==
    UNION { Range(doc[i].capabilities) : i \in { j \in 1..Len(doc) : doc[j].path = p } }


(***************************************************************************)
(* Persistence codec                                                       *)
(***************************************************************************)

\* A JSON document: well-formed text carries its members in order.
JSONObject(members) == [valid |-> TRUE, members |-> members]
JSONGarbage == [valid |-> FALSE, members |-> <<>>]

\* The value of member key, "" when the document does not have it.
Member(doc, key) ==
    IF \E i \in 1..Len(doc.members) : doc.members[i][1] = key
    THEN doc.members[CHOOSE i \in 1..Len(doc.members) : doc.members[i][1] = key][2]
    ELSE ""

\* json.Marshal(details): every field of Details is exported.
MarshalDetails(d) ==
    JSONObject(<< <<"OrganizationName", d.OrganizationName>>,
                  <<"OrganizationGUID", d.OrganizationGUID>>,
                  <<"SpaceName", d.SpaceName>>,
                  <<"SpaceGUID", d.SpaceGUID>>,
                  <<"ServiceInstanceName", d.ServiceInstanceName>>,
                  <<"ServiceInstanceGUID", d.ServiceInstanceGUID>> >>)

NilCh == 0

bindingInfo(org, space, binding, token, accessor, ch) ==
    [Organization |-> org, Space |-> space, Binding |-> binding,
     ClientToken |-> token, Accessor |-> accessor, stopCh |-> ch]

\* json.Marshal(info): stopCh is unexported and is not written.
MarshalBindingInfo(info) ==
    JSONObject(<< <<"Organization", info.Organization>>,
                  <<"Space", info.Space>>,
                  <<"Binding", info.Binding>>,
                  <<"ClientToken", info.ClientToken>>,
                  <<"Accessor", info.Accessor>> >>)

\* A value of a secret's data map: a string holding JSON text, or something else.
StringValue(doc) == [type |-> "string", text |-> doc]
NumberValue == [type |-> "number", text |-> JSONGarbage]

\* The envelope {"json": string(payload)}.
Envelope(doc) == [k \in {"json"} |-> StringValue(doc)]
NoData == [k \in {} |-> NumberValue]

NoDetails == Details("", "", "", "", "", "")
NoInfo == bindingInfo("", "", "", "", "", NilCh)

\* decodeDetails: [err, val]
decodeDetails(m) ==
    IF "json" \notin DOMAIN m THEN [err |-> "missing 'json' key", val |-> NoDetails]
    ELSE IF m["json"].type # "string"
         THEN [err |-> "json data is not string", val |-> NoDetails]
    ELSE IF ~m["json"].text.valid THEN [err |-> "unmarshal", val |-> NoDetails]
    ELSE LET doc == m["json"].text
         IN  [err |-> "",
              val |-> Details(Member(doc, "OrganizationName"),
                              Member(doc, "OrganizationGUID"),
                              Member(doc, "SpaceName"),
                              Member(doc, "SpaceGUID"),
                              Member(doc, "ServiceInstanceName"),
                              Member(doc, "ServiceInstanceGUID"))]

\* decodeBindingInfo: [err, val]; the decoded value has no stop channel.
decodeBindingInfo(m) ==
    IF "json" \notin DOMAIN m THEN [err |-> "missing 'json' key", val |-> NoInfo]
    ELSE IF m["json"].type # "string"
         THEN [err |-> "json data is not string", val |-> NoInfo]
    ELSE IF ~m["json"].text.valid THEN [err |-> "unmarshal", val |-> NoInfo]
    ELSE LET doc == m["json"].text
         IN  [err |-> "",
              val |-> bindingInfo(Member(doc, "Organization"),
                                  Member(doc, "Space"),
                                  Member(doc, "Binding"),
                                  Member(doc, "ClientToken"),
                                  Member(doc, "Accessor"),
                                  NilCh)]

(***************************************************************************)
(* The mount sets of Provision and Deprovision                             *)
(***************************************************************************)

\* A mount list that forgets the transit mount of the instance.
vaultMountsWithoutTransit(d) ==
    << Mount("", "", d.OrganizationGUID, KV),
       Mount("", "", d.SpaceGUID, KV),
       Mount("", "", d.ServiceInstanceGUID, KV) >>

vaultMounts(d) ==
    LET mounts == << Mount("", "", d.OrganizationGUID, KV),
                     Mount("", "", d.SpaceGUID, KV),
                     Mount("", "", d.ServiceInstanceGUID, KV),
                     Mount("", "", d.ServiceInstanceGUID, Transit) >>
    IN  IF ~NamesPopulated(d) THEN mounts
        ELSE mounts \o
             << Mount("", d.OrganizationName, d.OrganizationGUID, KV),
                Mount("", d.SpaceName, d.SpaceGUID, KV),
                Mount("", d.ServiceInstanceName, d.ServiceInstanceGUID, KV),
                Mount("", d.ServiceInstanceName, d.ServiceInstanceGUID, Transit) >>

\* The unmount set of Deprovision: ok says whether the instance is in the index.
deprovisionMounts(instanceID, ok, instance) ==
    LET mounts == << Mount("", "", instanceID, KV),
                     Mount("", "", instanceID, Transit) >>
    IN  IF ok
        THEN mounts \o << Mount("", instance.ServiceInstanceName, instanceID, KV),
                          Mount("", instance.ServiceInstanceName, instanceID, Transit) >>
        ELSE mounts

VaultPeriodicTTL == 5 * 24 * 60 * 60

tokenRole(policyName) ==
    [allowed_policies |-> policyName, period |-> VaultPeriodicTTL, renewable |-> TRUE]

\* Credentials whose shared backends are taken the wrong way round.
CredentialsSharedSwapped(addr, accessor, token, instanceID, instance) ==
    [address |-> addr,
     auth |-> [accessor |-> accessor, token |-> token],
     backends |-> [generic |-> "cf/" \o instanceID \o "/secret",
                   transit |-> "cf/" \o instanceID \o "/transit"],
     backends_shared |->
         [organization |-> "cf/" \o instance.SpaceGUID \o "/secret",
          space |-> "cf/" \o instance.OrganizationGUID \o "/secret"]]

\* The credentials Bind returns.
Credentials(addr, accessor, token, instanceID, instance) ==
    [address |-> addr,
     auth |-> [accessor |-> accessor, token |-> token],
     backends |-> [generic |-> "cf/" \o instanceID \o "/secret",
                   transit |-> "cf/" \o instanceID \o "/transit"],
     backends_shared |->
         [organization |-> "cf/" \o instance.OrganizationGUID \o "/secret",
          space |-> "cf/" \o instance.SpaceGUID \o "/secret"]]

NoCredentials ==
    [address |-> "", auth |-> [accessor |-> "", token |-> ""],
     backends |-> [generic |-> "", transit |-> ""],
     backends_shared |-> [organization |-> "", space |-> ""]]


(***************************************************************************)
(* State                                                                   *)
(***************************************************************************)

VARIABLES
    vMounts,      \* vault: mount table, vault path (trailing "/") -> engine type
    vPolicies,    \* vault: policy name -> rendered document
    vRoles,       \* vault: logical path of a token role -> its data
    vTree,        \* vault: persisted tree under cf/broker/, path -> secret data
    nextTok,      \* vault: number of the next token to issue
    vRevoked,     \* vault: accessors that have been revoked
    instances,    \* Broker.instances
    binds,        \* Broker.binds
    running,      \* Broker.running
    stopCh,       \* Broker.stopCh
    locks,        \* holder of stopLock, bindLock, instancesLock, mountMutex
    nextCh,       \* the next channel make(chan struct{}) returns
    closes,       \* channel -> number of times close() was called on it
    pcfClient,    \* whether Broker.pcfClient is configured
    vaultRenewToken, \* Broker.vaultRenewToken
    pc,           \* per handler invocation: the statement it is at
    loc,          \* per handler invocation: its local variables
    renewers,     \* the renewAuth / renewVaultToken goroutines, in spawn order
    nfail,        \* failures the environment has injected so far
    ncalls,       \* handler invocations so far
    mountLog,     \* the mount / unmount requests sent to the vault
    hist,         \* the handler invocations that returned, in order
    fin,          \* inputs of the pure functions under check
    fout          \* their outputs

vaultVars == <<vMounts, vPolicies, vRoles, vTree, nextTok, vRevoked>>
brokerVars == <<instances, binds, running, stopCh, locks, nextCh, closes,
                pcfClient, vaultRenewToken>>
taskVars == <<pc, loc, renewers>>
bookVars == <<nfail, ncalls, mountLog, hist>>
pureVars == <<fin, fout>>
vars == <<vaultVars, brokerVars, taskVars, bookVars, pureVars>>

(***************************************************************************)
(* Bounds and value sets                                                   *)
(***************************************************************************)

NThreads == 2          \* concurrent handler invocations
MaxCalls == 4          \* handler invocations in one behaviour
ConcurrentCalls == 2   \* of them, invocations left to a broker that already serves
MaxFail == 1           \* injected vault / platform failures in one behaviour

Threads == 1..NThreads
NoThread == 0

InstanceIDs == <<"i1", "i2">>
BindingIDs == <<"b1", "b2">>
OrgGUIDs == {"o1"}
SpaceGUIDs == {"s1"}

LockNames == {"stopLock", "bindLock", "instancesLock", "mountMutex"}

Tok(n) == "tok" \o ToString(n)
Acc(n) == "acc" \o ToString(n)

\* A function without key k.
Without(f, k) == [x \in DOMAIN f \ {k} |-> f[x]]
\* A function with key k set to v.
With(f, k, v) == [x \in DOMAIN f \cup {k} |-> IF x = k THEN v ELSE f[x]]

EmptyMap == [x \in {} |-> 0]

NoLocals ==
    [op |-> "", instanceID |-> "", bindingID |-> "", org |-> "", space |-> "",
     details |-> NoDetails, ok |-> FALSE, mounts |-> <<>>, mountPaths |-> {},
     i |-> 0, after |-> "", nreq |-> 0, keys |-> <<>>, bkeys |-> <<>>,
     token |-> "", accessor |-> "", info |-> NoInfo, err |-> "",
     creds |-> NoCredentials]

\* The outcomes of a call that the environment may fail.
Outcomes == IF nfail < MaxFail THEN {"ok", "fail"} ELSE {"ok"}
Count(o) == IF o = "ok" THEN nfail ELSE nfail + 1

Held(t) == { l \in LockNames : locks[l] = t }
Acquire(l, t) == [locks EXCEPT ![l] = t]
Release(l) == [locks EXCEPT ![l] = NoThread]
\* A return runs the deferred Unlock calls; at every return of the code the
\* locks still held are the deferred ones.
ReleaseAll(t) == [l \in LockNames |-> IF locks[l] = t THEN NoThread ELSE locks[l]]

Goto(t, label) == pc' = [pc EXCEPT ![t] = label]
Set(t, r) == loc' = [loc EXCEPT ![t] = r]

\* return ..., err
Return(t, r, e) ==
    /\ pc' = [pc EXCEPT ![t] = "done"]
    /\ loc' = [loc EXCEPT ![t] = [r EXCEPT !.err = e]]

(***************************************************************************)
(* The vault, as the broker sees it                                        *)
(***************************************************************************)

HasPrefix(s, p) == Len(s) >= Len(p) /\ SubSeq(s, 1, Len(p)) = p

RECURSIVE FirstSegment(_)
FirstSegment(s) ==
    IF Len(s) = 0 \/ Char(s, 1) = "/" THEN ""
    ELSE Char(s, 1) \o FirstSegment(SubSeq(s, 2, Len(s)))

\* Every key a listing can hold, in the order the vault returns keys.
KeyOrder ==
    LET ids == InstanceIDs \o BindingIDs
    IN  [n \in 1..(2 * Len(ids)) |->
            IF n % 2 = 1 THEN ids[(n + 1) \div 2] ELSE ids[n \div 2] \o "/"]

\* The keys below dir: an object under its name, a folder under its name and
\* "/".  An entry that is both (an instance that has bindings) is listed
\* under both keys, or by a store that merges them under its name alone.
VaultKeys(dir, both) ==
    LET below == { SubSeq(p, Len(dir) + 1, Len(p)) :
                     p \in { q \in DOMAIN vTree : HasPrefix(q, dir) /\ Len(q) > Len(dir) } }
        objects == { r \in below : ~HasChar(r, "/") }
        folders == { FirstSegment(r) : r \in { x \in below : HasChar(x, "/") } }
    IN  objects \cup { f \o "/" : f \in IF both THEN folders ELSE folders \ objects }

\* Logical().List(dir): the listings the vault may answer with.
VaultList(dir) ==
    { SelectSeq(KeyOrder, LAMBDA key : key \in VaultKeys(dir, both)) : both \in BOOLEAN }

\* Sys().ListMounts(): the mount table, keyed by path with a trailing "/".
ListMounts == DOMAIN vMounts

\* Strip all leading and trailing things
MountPaths(vaultMountPaths) == { Trim(vaultMount, "/") : vaultMount \in vaultMountPaths }


(***************************************************************************)
(* Mount coordinator                                                       *)
(***************************************************************************)

\* Whether the vault has a mount at path.
InUse(path) == (path \o "/") \in DOMAIN vMounts

Request(kind, path) == [kind |-> kind, path |-> path, mounted |-> InUse(path)]

\* The error a caller of the coordinator returns.
MountError(op) ==
    CASE op = "Start"       -> "failed to create mounts"
      [] op = "Provision"   -> "failed to create mounts"
      [] op = "Deprovision" -> "failed to remove mounts"
      [] OTHER              -> "vault error"

\* A test that takes every path for mounted.
MountedAlways(mountPaths, mountPath) == TRUE

\* _, ok := mountPaths[mountPath]
Mounted(mountPaths, mountPath) == mountPath \in mountPaths

\* A coordinator that does not wait for the mount lock.
CoordinatorLockNoWait(t) ==
    /\ pc[t] \in {"m_lock", "u_lock"}
    /\ locks' = Acquire("mountMutex", t)
    /\ Goto(t, IF pc[t] = "m_lock" THEN "m_list" ELSE "u_list")
    /\ UNCHANGED <<vaultVars, instances, binds, running, stopCh, nextCh, closes,
                   pcfClient, vaultRenewToken, loc, renewers, bookVars, pureVars>>

\* b.mountMutex.Lock(); defer b.mountMutex.Unlock()
CoordinatorLock(t) ==
    /\ pc[t] \in {"m_lock", "u_lock"}
    /\ locks["mountMutex"] = NoThread
    /\ locks' = Acquire("mountMutex", t)
    /\ Goto(t, IF pc[t] = "m_lock" THEN "m_list" ELSE "u_list")
    /\ UNCHANGED <<vaultVars, instances, binds, running, stopCh, nextCh, closes,
                   pcfClient, vaultRenewToken, loc, renewers, bookVars, pureVars>>

\* vaultMountPaths, err := b.vaultClient.Sys().ListMounts()
CoordinatorList(t) ==
    /\ pc[t] \in {"m_list", "u_list"}
    /\ \E o \in Outcomes :
         /\ nfail' = Count(o)
         /\ IF o = "fail"
            THEN /\ Return(t, loc[t], MountError(loc[t].op))
                 /\ locks' = ReleaseAll(t)
            ELSE /\ Set(t, [loc[t] EXCEPT !.mountPaths = MountPaths(ListMounts),
                                          !.i = 1, !.nreq = 0])
                 /\ Goto(t, IF pc[t] = "m_list" THEN "m_loop" ELSE "u_loop")
                 /\ UNCHANGED locks
    /\ UNCHANGED <<vaultVars, instances, binds, running, stopCh, nextCh, closes,
                   pcfClient, vaultRenewToken, renewers, ncalls, mountLog, hist,
                   pureVars>>

\* A loop of idempotentMount that goes on to the next mount when a request
\* is refused.
idempotentMountGoesOn(t) ==
    /\ pc[t] = "m_loop"
    /\ IF loc[t].i > Len(loc[t].mounts)
       THEN /\ Goto(t, loc[t].after)
            /\ locks' = Release("mountMutex")
            /\ UNCHANGED <<loc, vMounts, nfail, mountLog>>
       ELSE LET mount == loc[t].mounts[loc[t].i]
                mountPath == Trim(Path(mount), "/")
            IN  IF Mounted(loc[t].mountPaths, mountPath)
                THEN /\ Set(t, [loc[t] EXCEPT !.i = @ + 1])
                     /\ UNCHANGED <<pc, locks, vMounts, nfail, mountLog>>
                ELSE /\ mountLog' = mountLog \cup {Request("mount", mountPath)}
                     /\ \E o \in IF InUse(mountPath) THEN {"fail"} ELSE Outcomes :
                          /\ nfail' = IF InUse(mountPath) THEN nfail ELSE Count(o)
                          /\ vMounts' = IF o = "fail" THEN vMounts
                                        ELSE With(vMounts, mountPath \o "/", mount.Type)
                          /\ Set(t, [loc[t] EXCEPT !.i = @ + 1, !.nreq = @ + 1])
                          /\ UNCHANGED <<pc, locks>>
    /\ UNCHANGED <<vPolicies, vRoles, vTree, nextTok, vRevoked, instances, binds,
                   running, stopCh, nextCh, closes, pcfClient, vaultRenewToken,
                   renewers, ncalls, hist, pureVars>>

\* One iteration of the loop of idempotentMount, or its return.
idempotentMount(t) ==
    /\ pc[t] = "m_loop"
    /\ IF loc[t].i > Len(loc[t].mounts)
       THEN /\ Goto(t, loc[t].after)
            /\ locks' = Release("mountMutex")
            /\ UNCHANGED <<loc, vMounts, nfail, mountLog>>
       ELSE LET mount == loc[t].mounts[loc[t].i]
                mountPath == Trim(Path(mount), "/")
            IN  IF Mounted(loc[t].mountPaths, mountPath)
                THEN /\ Set(t, [loc[t] EXCEPT !.i = @ + 1])
                     /\ UNCHANGED <<pc, locks, vMounts, nfail, mountLog>>
                ELSE /\ mountLog' = mountLog \cup {Request("mount", mountPath)}
                     \* the vault refuses a path that is already in use
                     /\ \E o \in IF InUse(mountPath) THEN {"fail"} ELSE Outcomes :
                          /\ nfail' = IF InUse(mountPath) THEN nfail ELSE Count(o)
                          /\ IF o = "fail"
                             THEN /\ Return(t, [loc[t] EXCEPT !.nreq = @ + 1],
                                            MountError(loc[t].op))
                                  /\ locks' = ReleaseAll(t)
                                  /\ UNCHANGED vMounts
                             ELSE /\ vMounts' = With(vMounts, mountPath \o "/", mount.Type)
                                  /\ Set(t, [loc[t] EXCEPT !.i = @ + 1, !.nreq = @ + 1])
                                  /\ UNCHANGED <<pc, locks>>
    /\ UNCHANGED <<vPolicies, vRoles, vTree, nextTok, vRevoked, instances, binds,
                   running, stopCh, nextCh, closes, pcfClient, vaultRenewToken,
                   renewers, ncalls, hist, pureVars>>

\* One iteration of the loop of idempotentUnmount, or its return.
idempotentUnmount(t) ==
    /\ pc[t] = "u_loop"
    /\ IF loc[t].i > Len(loc[t].mounts)
       THEN /\ Goto(t, loc[t].after)
            /\ locks' = Release("mountMutex")
            /\ UNCHANGED <<loc, vMounts, nfail, mountLog>>
       ELSE LET mount == loc[t].mounts[loc[t].i]
                mountPath == Trim(Path(mount), "/")
            IN  IF ~Mounted(loc[t].mountPaths, mountPath)
                THEN /\ Set(t, [loc[t] EXCEPT !.i = @ + 1])
                     /\ UNCHANGED <<pc, locks, vMounts, nfail, mountLog>>
                ELSE /\ mountLog' = mountLog \cup {Request("unmount", mountPath)}
                     /\ \E o \in Outcomes :
                          /\ nfail' = Count(o)
                          /\ IF o = "fail"
                             THEN /\ Return(t, [loc[t] EXCEPT !.nreq = @ + 1],
                                            MountError(loc[t].op))
                                  /\ locks' = ReleaseAll(t)
                                  /\ UNCHANGED vMounts
                             ELSE /\ vMounts' = Without(vMounts, mountPath \o "/")
                                  /\ Set(t, [loc[t] EXCEPT !.i = @ + 1, !.nreq = @ + 1])
                                  /\ UNCHANGED <<pc, locks>>
    /\ UNCHANGED <<vPolicies, vRoles, vTree, nextTok, vRevoked, instances, binds,
                   running, stopCh, nextCh, closes, pcfClient, vaultRenewToken,
                   renewers, ncalls, hist, pureVars>>


(***************************************************************************)
(* Renewer tasks: spawning                                                 *)
(***************************************************************************)

\* A renewer started without the stop channel of its binding.
renewAuthTaskNilStop(token, accessor, ch) ==
    [kind |-> "auth", token |-> token, accessor |-> accessor, stopCh |-> NilCh,
     pc |-> "sleep", sel |-> NilCh, born |-> stopCh, attached |-> FALSE,
     released |-> 0, expireTime |-> ""]

\* go b.renewAuth(token, accessor, stopCh)
renewAuthTask(token, accessor, ch) ==
    [kind |-> "auth", token |-> token, accessor |-> accessor, stopCh |-> ch,
     pc |-> "sleep", sel |-> NilCh, born |-> stopCh, attached |-> FALSE,
     released |-> 0, expireTime |-> ""]

\* go b.renewVaultToken()
renewVaultTokenTask ==
    [kind |-> "self", token |-> "", accessor |-> "", stopCh |-> NilCh,
     pc |-> "lookup", sel |-> NilCh, born |-> nextCh, attached |-> FALSE,
     released |-> 0, expireTime |-> ""]

BrokerToken == "broker-token"
BrokerAccessor == "broker-accessor"

(***************************************************************************)
(* Start and Stop                                                          *)
(***************************************************************************)

CallStart(t) ==
    /\ pc[t] = "idle"
    /\ ncalls < MaxCalls
    /\ ncalls' = ncalls + 1
    /\ Goto(t, "s_begin")
    /\ Set(t, [NoLocals EXCEPT !.op = "Start"])
    /\ UNCHANGED <<vaultVars, brokerVars, renewers, nfail, mountLog, hist, pureVars>>

\* Start, up to the call of idempotentMount.
StartBegin(t) ==
    /\ pc[t] = "s_begin"
    /\ locks["stopLock"] = NoThread
    /\ IF running
       THEN /\ Return(t, loc[t], "")
            /\ UNCHANGED <<locks, stopCh, nextCh, closes, renewers>>
       ELSE /\ locks' = Acquire("stopLock", t)
            /\ stopCh' = nextCh
            /\ nextCh' = nextCh + 1
            /\ closes' = With(closes, nextCh, 0)
            /\ renewers' = IF vaultRenewToken
                           THEN Append(renewers, renewVaultTokenTask)
                           ELSE renewers
            /\ Set(t, [loc[t] EXCEPT !.mounts = <<Mount("broker", "", "", KV)>>,
                                     !.after = "s_list"])
            /\ Goto(t, "m_lock")
    /\ UNCHANGED <<vaultVars, instances, binds, running, pcfClient, vaultRenewToken,
                   bookVars, pureVars>>

\* instances, err := b.listDir("cf/broker/")
StartList(t) ==
    /\ pc[t] = "s_list"
    /\ \E o \in Outcomes :
         /\ nfail' = Count(o)
         /\ IF o = "fail"
            THEN /\ Return(t, loc[t], "failed to list instances")
                 /\ locks' = ReleaseAll(t)
            ELSE /\ \E keys \in VaultList("cf/broker/") :
                        Set(t, [loc[t] EXCEPT !.keys = keys])
                 /\ Goto(t, "s_inst")
                 /\ UNCHANGED locks
    /\ UNCHANGED <<vaultVars, instances, binds, running, stopCh, nextCh, closes,
                   pcfClient, vaultRenewToken, renewers, ncalls, mountLog, hist,
                   pureVars>>

\* The head of the loop over instances, and restoreInstance up to its store.
restoreInstance(t) ==
    /\ pc[t] = "s_inst"
    /\ IF loc[t].keys = <<>>
       THEN /\ Goto(t, "s_log")
            /\ UNCHANGED <<loc, locks, nfail>>
       ELSE LET inst == Trim(Head(loc[t].keys), "/")
                path == "cf/broker/" \o inst
            IN  \E o \in Outcomes :
                  /\ nfail' = Count(o)
                  /\ IF o = "fail"
                     THEN /\ Return(t, loc[t], "failed to restore instance data")
                          /\ locks' = ReleaseAll(t)
                     ELSE IF path \notin DOMAIN vTree \/ DOMAIN vTree[path] = {}
                     THEN /\ Set(t, [loc[t] EXCEPT !.instanceID = inst])
                          /\ Goto(t, "s_blist")
                          /\ UNCHANGED locks
                     ELSE IF decodeDetails(vTree[path]).err # ""
                     THEN /\ Return(t, loc[t], "failed to restore instance data")
                          /\ locks' = ReleaseAll(t)
                     ELSE /\ Set(t, [loc[t] EXCEPT
                                       !.instanceID = inst,
                                       !.details = decodeDetails(vTree[path]).val])
                          /\ Goto(t, "s_inst_lock")
                          /\ UNCHANGED locks
    /\ UNCHANGED <<vaultVars, instances, binds, running, stopCh, nextCh, closes,
                   pcfClient, vaultRenewToken, renewers, ncalls, mountLog, hist,
                   pureVars>>

\* b.instancesLock.Lock() in restoreInstance; b.bindLock.Lock() in restoreBind
\* and before the restore log line.
StartLock(t) ==
    /\ pc[t] \in {"s_inst_lock", "s_bind_lock", "s_log"}
    /\ LET l == IF pc[t] = "s_inst_lock" THEN "instancesLock" ELSE "bindLock"
       IN  /\ locks[l] = NoThread
           /\ locks' = Acquire(l, t)
    /\ Goto(t, CASE pc[t] = "s_inst_lock" -> "s_inst_store"
                 [] pc[t] = "s_bind_lock" -> "s_bind_store"
                 [] OTHER -> "s_finish")
    /\ UNCHANGED <<vaultVars, instances, binds, running, stopCh, nextCh, closes,
                   pcfClient, vaultRenewToken, loc, renewers, bookVars, pureVars>>

\* b.instances[instanceID] = info; b.instancesLock.Unlock()
restoreInstanceStore(t) ==
    /\ pc[t] = "s_inst_store"
    /\ instances' = With(instances, loc[t].instanceID, loc[t].details)
    /\ locks' = Release("instancesLock")
    /\ Goto(t, "s_blist")
    /\ UNCHANGED <<vaultVars, binds, running, stopCh, nextCh, closes, pcfClient,
                   vaultRenewToken, loc, renewers, bookVars, pureVars>>

\* binds, err := b.listDir("cf/broker/" + inst + "/")
StartListBinds(t) ==
    /\ pc[t] = "s_blist"
    /\ \E o \in Outcomes :
         /\ nfail' = Count(o)
         /\ IF o = "fail"
            THEN /\ Return(t, loc[t], "failed to list binds")
                 /\ locks' = ReleaseAll(t)
            ELSE /\ \E keys \in VaultList("cf/broker/" \o loc[t].instanceID \o "/") :
                        Set(t, [loc[t] EXCEPT !.bkeys = keys])
                 /\ Goto(t, "s_bind")
                 /\ UNCHANGED locks
    /\ UNCHANGED <<vaultVars, instances, binds, running, stopCh, nextCh, closes,
                   pcfClient, vaultRenewToken, renewers, ncalls, mountLog, hist,
                   pureVars>>

\* The head of the loop over binds, and restoreBind up to its store: read,
\* decode, make the stop channel, start the renewer.
restoreBind(t) ==
    /\ pc[t] = "s_bind"
    /\ IF loc[t].bkeys = <<>>
       THEN /\ Set(t, [loc[t] EXCEPT !.keys = Tail(@)])
            /\ Goto(t, "s_inst")
            /\ UNCHANGED <<locks, nfail, nextCh, closes, renewers>>
       ELSE LET bindingID == Trim(Head(loc[t].bkeys), "/")
                path == "cf/broker/" \o loc[t].instanceID \o "/" \o bindingID
            IN  \E o \in Outcomes :
                  /\ nfail' = Count(o)
                  /\ IF o = "fail"
                     THEN /\ Return(t, loc[t], "failed to restore bind")
                          /\ locks' = ReleaseAll(t)
                          /\ UNCHANGED <<nextCh, closes, renewers>>
                     ELSE IF path \notin DOMAIN vTree \/ DOMAIN vTree[path] = {}
                     THEN /\ Set(t, [loc[t] EXCEPT !.bkeys = Tail(@)])
                          /\ UNCHANGED <<pc, locks, nextCh, closes, renewers>>
                     ELSE IF decodeBindingInfo(vTree[path]).err # ""
                     THEN /\ Return(t, loc[t], "failed to restore bind")
                          /\ locks' = ReleaseAll(t)
                          /\ UNCHANGED <<nextCh, closes, renewers>>
                     ELSE LET info == [decodeBindingInfo(vTree[path]).val
                                         EXCEPT !.stopCh = nextCh]
                          IN  /\ nextCh' = nextCh + 1
                              /\ closes' = With(closes, nextCh, 0)
                              /\ renewers' = Append(renewers,
                                    renewAuthTask(info.ClientToken, info.Accessor,
                                                  info.stopCh))
                              /\ Set(t, [loc[t] EXCEPT !.bindingID = bindingID,
                                                       !.info = info])
                              /\ Goto(t, "s_bind_lock")
                              /\ UNCHANGED locks
    /\ UNCHANGED <<vaultVars, instances, binds, running, stopCh, pcfClient,
                   vaultRenewToken, ncalls, mountLog, hist, pureVars>>

\* b.binds[bindingID] = info; b.bindLock.Unlock()
restoreBindStore(t) ==
    /\ pc[t] = "s_bind_store"
    /\ binds' = With(binds, loc[t].bindingID, loc[t].info)
    /\ locks' = Release("bindLock")
    /\ Set(t, [loc[t] EXCEPT !.bkeys = Tail(@)])
    /\ Goto(t, "s_bind")
    /\ UNCHANGED <<vaultVars, instances, running, stopCh, nextCh, closes, pcfClient,
                   vaultRenewToken, renewers, bookVars, pureVars>>

\* b.bindLock.Unlock(); b.running = true; return nil
StartFinish(t) ==
    /\ pc[t] = "s_finish"
    /\ running' = TRUE
    /\ locks' = ReleaseAll(t)
    /\ Return(t, loc[t], "")
    /\ UNCHANGED <<vaultVars, instances, binds, stopCh, nextCh, closes, pcfClient,
                   vaultRenewToken, renewers, bookVars, pureVars>>

\* A Stop that closes the stop channel whether the broker runs or not.
StopUnguarded(t) ==
    /\ pc[t] = "idle"
    /\ ncalls < MaxCalls
    /\ ncalls' = ncalls + 1
    /\ locks["stopLock"] = NoThread
    /\ closes' = IF stopCh # NilCh THEN [closes EXCEPT ![stopCh] = @ + 1] ELSE closes
    /\ running' = FALSE
    /\ Return(t, [NoLocals EXCEPT !.op = "Stop"], "")
    /\ UNCHANGED <<vaultVars, instances, binds, stopCh, locks, nextCh, pcfClient,
                   vaultRenewToken, renewers, nfail, mountLog, hist, pureVars>>

\* Stop: under stopLock, close the stop channel and mark as stopped.
Stop(t) ==
    /\ pc[t] = "idle"
    /\ ncalls < MaxCalls
    /\ ncalls' = ncalls + 1
    /\ locks["stopLock"] = NoThread
    /\ IF ~running
       THEN UNCHANGED <<closes, running>>
       ELSE /\ closes' = [closes EXCEPT ![stopCh] = @ + 1]
            /\ running' = FALSE
    /\ Return(t, [NoLocals EXCEPT !.op = "Stop"], "")
    /\ UNCHANGED <<vaultVars, instances, binds, stopCh, locks, nextCh, pcfClient,
                   vaultRenewToken, renewers, nfail, mountLog, hist, pureVars>>

(***************************************************************************)
(* Provision                                                               *)
(***************************************************************************)

OrgName(guid) == "n" \o guid
SpaceName(guid) == "n" \o guid
\* The platform may know an instance under an empty name.
InstanceNames(guid) == {"", "n" \o guid}

\* Provision up to the policy: build the details, look up the names when the
\* platform client is configured.
Provision(t, instanceID, org, space) ==
    /\ pc[t] = "idle"
    /\ ncalls < MaxCalls
    /\ ncalls' = ncalls + 1
    /\ LET l == [NoLocals EXCEPT !.op = "Provision", !.instanceID = instanceID,
                                 !.org = org, !.space = space,
                                 !.details = Details("", org, "", space, "", instanceID)]
       IN  IF ~pcfClient
           THEN /\ Set(t, l)
                /\ Goto(t, "p_policy")
                /\ UNCHANGED nfail
           ELSE \E o \in Outcomes, name \in InstanceNames(instanceID) :
                  /\ nfail' = Count(o)
                  /\ IF o = "fail"
                     THEN Return(t, l, "platform lookup failed")
                     ELSE /\ Set(t, [l EXCEPT !.details =
                                       Details(OrgName(org), org, SpaceName(space),
                                               space, name, instanceID)])
                          /\ Goto(t, "p_policy")
    /\ UNCHANGED <<vaultVars, brokerVars, renewers, mountLog, hist, pureVars>>

\* GeneratePolicy and Sys().PutPolicy(policyName, buf.String())
ProvisionPolicy(t) ==
    /\ pc[t] = "p_policy"
    /\ LET policyName == "cf-" \o loc[t].details.ServiceInstanceGUID
       IN  \E o \in Outcomes :
             /\ nfail' = Count(o)
             /\ IF o = "fail"
                THEN /\ Return(t, loc[t], "failed to create policy")
                     /\ UNCHANGED vPolicies
                ELSE /\ vPolicies' = With(vPolicies, policyName,
                                          GeneratePolicy(loc[t].details))
                     /\ Goto(t, "p_role")
                     /\ UNCHANGED loc
    /\ UNCHANGED <<vMounts, vRoles, vTree, nextTok, vRevoked, brokerVars, renewers,
                   ncalls, mountLog, hist, pureVars>>

\* A ProvisionRole that deletes the policy again when the role is refused.
ProvisionRoleUndoesPolicy(t) ==
    /\ pc[t] = "p_role"
    /\ LET policyName == "cf-" \o loc[t].details.ServiceInstanceGUID
           path == "/auth/token/roles/cf-" \o loc[t].details.ServiceInstanceGUID
       IN  \E o \in Outcomes :
             /\ nfail' = Count(o)
             /\ IF o = "fail"
                THEN /\ Return(t, loc[t], "failed to create token role")
                     /\ vPolicies' = Without(vPolicies, policyName)
                     /\ UNCHANGED vRoles
                ELSE /\ vRoles' = With(vRoles, path, tokenRole(policyName))
                     /\ Set(t, [loc[t] EXCEPT !.mounts = vaultMounts(loc[t].details),
                                              !.after = "p_write"])
                     /\ Goto(t, "m_lock")
                     /\ UNCHANGED vPolicies
    /\ UNCHANGED <<vMounts, vTree, nextTok, vRevoked, brokerVars, renewers,
                   ncalls, mountLog, hist, pureVars>>

\* Logical().Write("/auth/token/roles/cf-<guid>", data), then the mounts needed
ProvisionRole(t) ==
    /\ pc[t] = "p_role"
    /\ LET policyName == "cf-" \o loc[t].details.ServiceInstanceGUID
           path == "/auth/token/roles/cf-" \o loc[t].details.ServiceInstanceGUID
       IN  \E o \in Outcomes :
             /\ nfail' = Count(o)
             /\ IF o = "fail"
                THEN /\ Return(t, loc[t], "failed to create token role")
                     /\ UNCHANGED vRoles
                ELSE /\ vRoles' = With(vRoles, path, tokenRole(policyName))
                     /\ Set(t, [loc[t] EXCEPT !.mounts = vaultMounts(loc[t].details),
                                              !.after = "p_write"])
                     /\ Goto(t, "m_lock")
    /\ UNCHANGED <<vMounts, vPolicies, vTree, nextTok, vRevoked, brokerVars, renewers,
                   ncalls, mountLog, hist, pureVars>>

\* json.Marshal(details) and Logical().Write("cf/broker/<guid>", {"json": payload})
ProvisionWrite(t) ==
    /\ pc[t] = "p_write"
    /\ LET instancePath == "cf/broker/" \o loc[t].details.ServiceInstanceGUID
       IN  \E o \in Outcomes :
             /\ nfail' = Count(o)
             /\ IF o = "fail"
                THEN /\ Return(t, loc[t], "failed to commit instance")
                     /\ UNCHANGED vTree
                ELSE /\ vTree' = With(vTree, instancePath,
                                      Envelope(MarshalDetails(loc[t].details)))
                     /\ Goto(t, "p_save")
                     /\ UNCHANGED loc
    /\ UNCHANGED <<vMounts, vPolicies, vRoles, nextTok, vRevoked, brokerVars, renewers,
                   ncalls, mountLog, hist, pureVars>>

\* Save the instance under instancesLock, and return.
ProvisionSave(t) ==
    /\ pc[t] = "p_save"
    /\ locks["instancesLock"] = NoThread
    /\ instances' = With(instances, loc[t].details.ServiceInstanceGUID, loc[t].details)
    /\ Return(t, loc[t], "")
    /\ UNCHANGED <<vaultVars, binds, running, stopCh, locks, nextCh, closes, pcfClient,
                   vaultRenewToken, renewers, bookVars, pureVars>>

(***************************************************************************)
(* Deprovision                                                             *)
(***************************************************************************)

\* Deprovision up to the call of idempotentUnmount: the unmount set, with the
\* instance looked up under instancesLock.
Deprovision(t, instanceID) ==
    /\ pc[t] = "idle"
    /\ ncalls < MaxCalls
    /\ ncalls' = ncalls + 1
    /\ locks["instancesLock"] = NoThread
    /\ LET ok == instanceID \in DOMAIN instances
           instance == IF ok THEN instances[instanceID] ELSE NoDetails
       IN  Set(t, [NoLocals EXCEPT !.op = "Deprovision", !.instanceID = instanceID,
                                   !.ok = ok, !.details = instance,
                                   !.mounts = deprovisionMounts(instanceID, ok, instance),
                                   !.after = "d_role"])
    /\ Goto(t, "u_lock")
    /\ UNCHANGED <<vaultVars, brokerVars, renewers, nfail, mountLog, hist, pureVars>>

\* Logical().Delete("/auth/token/roles/cf-<id>")
DeprovisionRole(t) ==
    /\ pc[t] = "d_role"
    /\ \E o \in Outcomes :
         /\ nfail' = Count(o)
         /\ IF o = "fail"
            THEN /\ Return(t, loc[t], "failed to delete token role")
                 /\ UNCHANGED vRoles
            ELSE /\ vRoles' = Without(vRoles, "/auth/token/roles/cf-" \o loc[t].instanceID)
                 /\ Goto(t, "d_policy")
                 /\ UNCHANGED loc
    /\ UNCHANGED <<vMounts, vPolicies, vTree, nextTok, vRevoked, brokerVars, renewers,
                   ncalls, mountLog, hist, pureVars>>

\* A DeprovisionPolicy that drops the instance from the index when the
\* policy cannot be deleted.
DeprovisionPolicyDropsInstance(t) ==
    /\ pc[t] = "d_policy"
    /\ \E o \in Outcomes :
         /\ nfail' = Count(o)
         /\ IF o = "fail"
            THEN /\ Return(t, loc[t], "failed to delete policy")
                 /\ instances' = Without(instances, loc[t].instanceID)
                 /\ UNCHANGED vPolicies
            ELSE /\ vPolicies' = Without(vPolicies, "cf-" \o loc[t].instanceID)
                 /\ Goto(t, "d_delete")
                 /\ UNCHANGED <<loc, instances>>
    /\ UNCHANGED <<vMounts, vRoles, vTree, nextTok, vRevoked, binds, running, stopCh,
                   locks, nextCh, closes, pcfClient, vaultRenewToken, renewers,
                   ncalls, mountLog, hist, pureVars>>

\* Sys().DeletePolicy("cf-<id>")
DeprovisionPolicy(t) ==
    /\ pc[t] = "d_policy"
    /\ \E o \in Outcomes :
         /\ nfail' = Count(o)
         /\ IF o = "fail"
            THEN /\ Return(t, loc[t], "failed to delete policy")
                 /\ UNCHANGED vPolicies
            ELSE /\ vPolicies' = Without(vPolicies, "cf-" \o loc[t].instanceID)
                 /\ Goto(t, "d_delete")
                 /\ UNCHANGED loc
    /\ UNCHANGED <<vMounts, vRoles, vTree, nextTok, vRevoked, brokerVars, renewers,
                   ncalls, mountLog, hist, pureVars>>

\* Logical().Delete("cf/broker/<id>")
DeprovisionDelete(t) ==
    /\ pc[t] = "d_delete"
    /\ \E o \in Outcomes :
         /\ nfail' = Count(o)
         /\ IF o = "fail"
            THEN /\ Return(t, loc[t], "failed to delete instance info")
                 /\ UNCHANGED vTree
            ELSE /\ vTree' = Without(vTree, "cf/broker/" \o loc[t].instanceID)
                 /\ Goto(t, "d_remove")
                 /\ UNCHANGED loc
    /\ UNCHANGED <<vMounts, vPolicies, vRoles, nextTok, vRevoked, brokerVars, renewers,
                   ncalls, mountLog, hist, pureVars>>

\* Delete the instance from the map under instancesLock, and return.
DeprovisionRemove(t) ==
    /\ pc[t] = "d_remove"
    /\ locks["instancesLock"] = NoThread
    /\ instances' = Without(instances, loc[t].instanceID)
    /\ Return(t, loc[t], "")
    /\ UNCHANGED <<vaultVars, binds, running, stopCh, locks, nextCh, closes, pcfClient,
                   vaultRenewToken, renewers, bookVars, pureVars>>

(***************************************************************************)
(* Bind                                                                    *)
(***************************************************************************)

VaultAdvertiseAddr == "https://vault/"

\* Bind up to the instance lookup: Auth().Token().CreateWithRole(..., roleName).
\* The vault issues a token only for a role it has.
Bind(t, instanceID, bindingID) ==
    /\ pc[t] = "idle"
    /\ ncalls < MaxCalls
    /\ ncalls' = ncalls + 1
    /\ LET roleName == "cf-" \o instanceID
           known == ("/auth/token/roles/" \o roleName) \in DOMAIN vRoles
           l == [NoLocals EXCEPT !.op = "Bind", !.instanceID = instanceID,
                                 !.bindingID = bindingID]
       IN  \E o \in IF known THEN Outcomes ELSE {"fail"} :
             /\ nfail' = IF known THEN Count(o) ELSE nfail
             /\ IF o = "fail"
                THEN /\ Return(t, l, "failed to create token")
                     /\ UNCHANGED nextTok
                ELSE /\ nextTok' = nextTok + 1
                     /\ Set(t, [l EXCEPT !.token = Tok(nextTok),
                                         !.accessor = Acc(nextTok)])
                     /\ Goto(t, "b_lookup")
    /\ UNCHANGED <<vMounts, vPolicies, vRoles, vTree, vRevoked, brokerVars, renewers,
                   mountLog, hist, pureVars>>

\* A lookup that goes on with an empty instance when the index has none.
BindLookupAnyInstance(t) ==
    /\ pc[t] = "b_lookup"
    /\ locks["instancesLock"] = NoThread
    /\ LET instance == IF loc[t].instanceID \in DOMAIN instances
                       THEN instances[loc[t].instanceID] ELSE NoDetails
       IN  /\ Set(t, [loc[t] EXCEPT
                        !.details = instance,
                        !.info = bindingInfo(instance.OrganizationGUID,
                                             instance.SpaceGUID,
                                             loc[t].bindingID, loc[t].token,
                                             loc[t].accessor, NilCh)])
           /\ Goto(t, "b_write")
    /\ UNCHANGED <<vaultVars, brokerVars, renewers, bookVars, pureVars>>

\* Get the instance for this instanceID under instancesLock; build the info.
BindLookup(t) ==
    /\ pc[t] = "b_lookup"
    /\ locks["instancesLock"] = NoThread
    /\ IF loc[t].instanceID \notin DOMAIN instances
       THEN Return(t, loc[t], "no instance exists")
       ELSE LET instance == instances[loc[t].instanceID]
            IN  /\ Set(t, [loc[t] EXCEPT
                             !.details = instance,
                             !.info = bindingInfo(instance.OrganizationGUID,
                                                  instance.SpaceGUID,
                                                  loc[t].bindingID, loc[t].token,
                                                  loc[t].accessor, NilCh)])
                /\ Goto(t, "b_write")
    /\ UNCHANGED <<vaultVars, brokerVars, renewers, bookVars, pureVars>>

\* Logical().Write("cf/broker/<instance>/<binding>", {"json": data}); on
\* success make the stop channel and start the renewer.
BindWrite(t) ==
    /\ pc[t] = "b_write"
    /\ LET path == "cf/broker/" \o loc[t].instanceID \o "/" \o loc[t].bindingID
       IN  \E o \in Outcomes :
             /\ nfail' = Count(o)
             /\ IF o = "fail"
                THEN /\ Goto(t, "b_revoke")
                     /\ UNCHANGED <<loc, vTree, nextCh, closes, renewers>>
                ELSE /\ vTree' = With(vTree, path,
                                      Envelope(MarshalBindingInfo(loc[t].info)))
                     /\ nextCh' = nextCh + 1
                     /\ closes' = With(closes, nextCh, 0)
                     /\ renewers' = Append(renewers,
                           renewAuthTask(loc[t].info.ClientToken, loc[t].info.Accessor,
                                         nextCh))
                     /\ Set(t, [loc[t] EXCEPT !.info.stopCh = nextCh])
                     /\ Goto(t, "b_save")
    /\ UNCHANGED <<vMounts, vPolicies, vRoles, nextTok, vRevoked, instances, binds,
                   running, stopCh, locks, pcfClient, vaultRenewToken, ncalls,
                   mountLog, hist, pureVars>>

\* A revocation step that returns the error of the revocation when it fails.
BindRevokeOwnError(t) ==
    /\ pc[t] = "b_revoke"
    /\ \E o \in {"ok", "fail"} :
         /\ vRevoked' = IF o = "fail" THEN vRevoked ELSE vRevoked \cup {loc[t].accessor}
         /\ Return(t, loc[t], IF o = "fail" THEN "failed to revoke accessor"
                                            ELSE "failed to commit binding")
    /\ UNCHANGED <<vMounts, vPolicies, vRoles, vTree, nextTok, brokerVars, renewers,
                   bookVars, pureVars>>

\* The write failed: Auth().Token().RevokeAccessor(a), then return the error
\* of the write.  The revocation may fail as well, whatever failed before it.
BindRevoke(t) ==
    /\ pc[t] = "b_revoke"
    /\ \E o \in {"ok", "fail"} :
         vRevoked' = IF o = "fail" THEN vRevoked ELSE vRevoked \cup {loc[t].accessor}
    /\ Return(t, loc[t], "failed to commit binding")
    /\ UNCHANGED <<vMounts, vPolicies, vRoles, vTree, nextTok, brokerVars, renewers,
                   bookVars, pureVars>>

\* Store the info under bindLock; return the credentials.
BindSave(t) ==
    /\ pc[t] = "b_save"
    /\ locks["bindLock"] = NoThread
    /\ binds' = With(binds, loc[t].bindingID, loc[t].info)
    /\ Return(t, [loc[t] EXCEPT !.creds =
                    Credentials(VaultAdvertiseAddr, loc[t].accessor, loc[t].token,
                                loc[t].instanceID, loc[t].details)], "")
    /\ UNCHANGED <<vaultVars, instances, running, stopCh, locks, nextCh, closes,
                   pcfClient, vaultRenewToken, renewers, bookVars, pureVars>>

(***************************************************************************)
(* Unbind                                                                  *)
(***************************************************************************)

\* An Unbind that goes on with an empty binding info when the decoding fails.
UnbindIgnoresDecodeError(t, instanceID, bindingID) ==
    /\ pc[t] = "idle"
    /\ ncalls < MaxCalls
    /\ ncalls' = ncalls + 1
    /\ LET path == "cf/broker/" \o instanceID \o "/" \o bindingID
           l == [NoLocals EXCEPT !.op = "Unbind", !.instanceID = instanceID,
                                 !.bindingID = bindingID]
       IN  \E o \in Outcomes :
             /\ nfail' = Count(o)
             /\ IF o = "fail" THEN Return(t, l, "failed to read binding info")
                ELSE IF path \notin DOMAIN vTree \/ DOMAIN vTree[path] = {}
                THEN Return(t, l, "missing bind info for unbind")
                ELSE /\ Set(t, [l EXCEPT !.info = decodeBindingInfo(vTree[path]).val])
                     /\ Goto(t, "ub_revoke")
    /\ UNCHANGED <<vaultVars, brokerVars, renewers, mountLog, hist, pureVars>>

\* Unbind up to the revocation: read and decode the binding info.
Unbind(t, instanceID, bindingID) ==
    /\ pc[t] = "idle"
    /\ ncalls < MaxCalls
    /\ ncalls' = ncalls + 1
    /\ LET path == "cf/broker/" \o instanceID \o "/" \o bindingID
           l == [NoLocals EXCEPT !.op = "Unbind", !.instanceID = instanceID,
                                 !.bindingID = bindingID]
       IN  \E o \in Outcomes :
             /\ nfail' = Count(o)
             /\ IF o = "fail" THEN Return(t, l, "failed to read binding info")
                ELSE IF path \notin DOMAIN vTree \/ DOMAIN vTree[path] = {}
                THEN Return(t, l, "missing bind info for unbind")
                ELSE IF decodeBindingInfo(vTree[path]).err # ""
                THEN Return(t, l, "failed to decode binding info")
                ELSE /\ Set(t, [l EXCEPT !.info = decodeBindingInfo(vTree[path]).val])
                     /\ Goto(t, "ub_revoke")
    /\ UNCHANGED <<vaultVars, brokerVars, renewers, mountLog, hist, pureVars>>

\* Auth().Token().RevokeAccessor(info.Accessor)
UnbindRevoke(t) ==
    /\ pc[t] = "ub_revoke"
    /\ \E o \in Outcomes :
         /\ nfail' = Count(o)
         /\ IF o = "fail"
            THEN /\ Return(t, loc[t], "failed to revoke accessor")
                 /\ UNCHANGED vRevoked
            ELSE /\ vRevoked' = vRevoked \cup {loc[t].info.Accessor}
                 /\ Goto(t, "ub_delete")
                 /\ UNCHANGED loc
    /\ UNCHANGED <<vMounts, vPolicies, vRoles, vTree, nextTok, brokerVars, renewers,
                   ncalls, mountLog, hist, pureVars>>

\* Logical().Delete("cf/broker/<instance>/<binding>")
UnbindDelete(t) ==
    /\ pc[t] = "ub_delete"
    /\ LET path == "cf/broker/" \o loc[t].instanceID \o "/" \o loc[t].bindingID
       IN  \E o \in Outcomes :
             /\ nfail' = Count(o)
             /\ IF o = "fail"
                THEN /\ Return(t, loc[t], "failed to delete binding info")
                     /\ UNCHANGED vTree
                ELSE /\ vTree' = Without(vTree, path)
                     /\ Goto(t, "ub_close")
                     /\ UNCHANGED loc
    /\ UNCHANGED <<vMounts, vPolicies, vRoles, nextTok, vRevoked, brokerVars, renewers,
                   ncalls, mountLog, hist, pureVars>>

\* An UnbindClose that closes the channel and leaves the entry in the index.
UnbindCloseKeepsEntry(t) ==
    /\ pc[t] = "ub_close"
    /\ locks["bindLock"] = NoThread
    /\ IF loc[t].bindingID \in DOMAIN binds
       THEN LET existing == binds[loc[t].bindingID]
            IN  /\ binds' = binds
                /\ closes' = IF existing.stopCh # NilCh
                             THEN [closes EXCEPT ![existing.stopCh] = @ + 1]
                             ELSE closes
       ELSE UNCHANGED <<binds, closes>>
    /\ Return(t, loc[t], "")
    /\ UNCHANGED <<vaultVars, instances, running, stopCh, locks, nextCh, pcfClient,
                   vaultRenewToken, renewers, bookVars, pureVars>>

\* Delete the bind if it exists, stopping any renewers; under bindLock.
UnbindClose(t) ==
    /\ pc[t] = "ub_close"
    /\ locks["bindLock"] = NoThread
    /\ IF loc[t].bindingID \in DOMAIN binds
       THEN LET existing == binds[loc[t].bindingID]
            IN  /\ binds' = Without(binds, loc[t].bindingID)
                /\ closes' = IF existing.stopCh # NilCh
                             THEN [closes EXCEPT ![existing.stopCh] = @ + 1]
                             ELSE closes
       ELSE UNCHANGED <<binds, closes>>
    /\ Return(t, loc[t], "")
    /\ UNCHANGED <<vaultVars, instances, running, stopCh, locks, nextCh, pcfClient,
                   vaultRenewToken, renewers, bookVars, pureVars>>

(***************************************************************************)
(* Renewer tasks                                                           *)
(***************************************************************************)

Closed(ch) == ch # NilCh /\ closes[ch] > 0

\* The value a renewer reads from b.stopCh.  The read is not synchronised with
\* the write of Start: a task started under an earlier channel may still see it.
ReadStopCh(r) == {stopCh, renewers[r].born}

\* return: the deferred renewer.Stop() runs when the streaming renewer was
\* attached; released counts the calls of Stop.
Exit(r, task) ==
    renewers' = [renewers EXCEPT ![r] =
                    [task EXCEPT !.pc = "exit",
                                 !.released = IF task.attached THEN @ + 1 ELSE @]]

\* The values of secret.Data["expire_time"] in the answer to LookupSelf: the
\* key is missing, present with a null, or present with a time.
ExpireTimes == {"missing", "null", "set"}

\* A lookup that takes a missing expire_time for a null one.
renewVaultTokenLookupMissingAsNull(r) ==
    /\ renewers[r].pc = "lookup"
    /\ \E o \in Outcomes, expireTime \in ExpireTimes :
         /\ nfail' = Count(o)
         /\ IF o = "fail"
            THEN Exit(r, renewers[r])
            ELSE IF expireTime \in {"null", "missing"}
            THEN Exit(r, [renewers[r] EXCEPT !.expireTime = expireTime])
            ELSE renewers' = [renewers EXCEPT ![r].pc = "renewself",
                                              ![r].expireTime = expireTime]
    /\ UNCHANGED <<vaultVars, brokerVars, pc, loc, ncalls, mountLog, hist, pureVars>>

\* renewVaultToken up to renew-self: Auth().Token().LookupSelf()
renewVaultTokenLookup(r) ==
    /\ renewers[r].pc = "lookup"
    /\ \E o \in Outcomes, expireTime \in ExpireTimes :
         /\ nfail' = Count(o)
         /\ IF o = "fail"
            THEN Exit(r, renewers[r])
            ELSE IF expireTime = "null"
            THEN Exit(r, [renewers[r] EXCEPT !.expireTime = expireTime])
            ELSE renewers' = [renewers EXCEPT ![r].pc = "renewself",
                                              ![r].expireTime = expireTime]
    /\ UNCHANGED <<vaultVars, brokerVars, pc, loc, ncalls, mountLog, hist, pureVars>>

\* Auth().Token().RenewSelf(0), then b.renewAuth(token, accessor, nil)
renewVaultToken(r) ==
    /\ renewers[r].pc = "renewself"
    /\ \E o \in Outcomes :
         /\ nfail' = Count(o)
         /\ IF o = "fail"
            THEN Exit(r, renewers[r])
            ELSE renewers' = [renewers EXCEPT ![r].pc = "sleep",
                                              ![r].token = BrokerToken,
                                              ![r].accessor = BrokerAccessor]
    /\ UNCHANGED <<vaultVars, brokerVars, pc, loc, ncalls, mountLog, hist, pureVars>>

\* renewAuth up to the loop: the jitter sleep, RenewTokenAsSelf(token, 0), the
\* streaming renewer; then the channels of the first select are evaluated.
\* The vault does not renew a token whose accessor was revoked.
renewAuth(r) ==
    /\ renewers[r].pc = "sleep"
    /\ \E o \in IF renewers[r].accessor \in vRevoked THEN {"fail"} ELSE Outcomes :
         /\ nfail' = IF renewers[r].accessor \in vRevoked THEN nfail ELSE Count(o)
         /\ IF o = "fail"
            THEN Exit(r, renewers[r])
            ELSE \E ch \in ReadStopCh(r) :
                   renewers' = [renewers EXCEPT ![r].pc = "select",
                                                ![r].attached = TRUE,
                                                ![r].sel = ch]
    /\ UNCHANGED <<vaultVars, brokerVars, pc, loc, ncalls, mountLog, hist, pureVars>>

\* case err := <-renewer.DoneCh(): the streaming renewer gave up.
renewAuthDone(r) ==
    /\ renewers[r].pc = "select"
    /\ Exit(r, renewers[r])
    /\ UNCHANGED <<vaultVars, brokerVars, pc, loc, bookVars, pureVars>>

\* case renewal := <-renewer.RenewCh(): log, and select again.
renewAuthRenewal(r) ==
    /\ renewers[r].pc = "select"
    /\ renewers[r].accessor \notin vRevoked
    /\ \E ch \in ReadStopCh(r) :
         renewers' = [renewers EXCEPT ![r].sel = ch]
    /\ UNCHANGED <<vaultVars, brokerVars, pc, loc, bookVars, pureVars>>

\* case <-stopCh: unbind requested.
renewAuthStopCh(r) ==
    /\ renewers[r].pc = "select"
    /\ Closed(renewers[r].stopCh)
    /\ Exit(r, renewers[r])
    /\ UNCHANGED <<vaultVars, brokerVars, pc, loc, bookVars, pureVars>>

\* A broker-wide stop case that leaves the task without stopping the
\* streaming renewer.
renewAuthBrokerStopChNoRelease(r) ==
    /\ renewers[r].pc = "select"
    /\ Closed(renewers[r].sel)
    /\ renewers' = [renewers EXCEPT ![r].pc = "exit"]
    /\ UNCHANGED <<vaultVars, brokerVars, pc, loc, bookVars, pureVars>>

\* case <-b.stopCh: the broker stops.
renewAuthBrokerStopCh(r) ==
    /\ renewers[r].pc = "select"
    /\ Closed(renewers[r].sel)
    /\ Exit(r, renewers[r])
    /\ UNCHANGED <<vaultVars, brokerVars, pc, loc, bookVars, pureVars>>

(***************************************************************************)
(* Handler invocations: the caller's side                                  *)
(***************************************************************************)

\* What a returned invocation leaves behind, for the record.
Snapshot ==
    [vMounts |-> vMounts, vPolicies |-> vPolicies, vRoles |-> vRoles,
     vTree |-> vTree, instances |-> instances, binds |-> DOMAIN binds]

\* The caller takes the result; the invocation slot is free again.  With
\* record, the invocation and the state it left are appended to hist.
Finish(t, record) ==
    /\ pc[t] = "done"
    /\ Goto(t, "idle")
    /\ Set(t, NoLocals)
    /\ hist' = IF record
               THEN Append(hist, [op |-> loc[t].op, instanceID |-> loc[t].instanceID,
                                  bindingID |-> loc[t].bindingID, org |-> loc[t].org,
                                  space |-> loc[t].space, details |-> loc[t].details,
                                  mounts |-> loc[t].mounts, token |-> loc[t].token,
                                  accessor |-> loc[t].accessor, creds |-> loc[t].creds,
                                  err |-> loc[t].err, nreq |-> loc[t].nreq,
                                  state |-> Snapshot])
               ELSE hist
    /\ UNCHANGED <<vaultVars, brokerVars, renewers, nfail, ncalls, mountLog, pureVars>>

\* The steps of Start after its call.
StartStep(t) ==
    \/ StartBegin(t)
    \/ StartList(t)
    \/ restoreInstance(t)
    \/ StartLock(t)
    \/ restoreInstanceStore(t)
    \/ StartListBinds(t)
    \/ restoreBind(t)
    \/ restoreBindStore(t)
    \/ StartFinish(t)

CoordinatorStep(t) ==
    \/ CoordinatorLock(t)
    \/ CoordinatorList(t)
    \/ idempotentMount(t)
    \/ idempotentUnmount(t)

ProvisionStep(t) ==
    \/ ProvisionPolicy(t)
    \/ ProvisionRole(t)
    \/ ProvisionWrite(t)
    \/ ProvisionSave(t)

DeprovisionStep(t) ==
    \/ DeprovisionRole(t)
    \/ DeprovisionPolicy(t)
    \/ DeprovisionDelete(t)
    \/ DeprovisionRemove(t)

BindStep(t) ==
    \/ BindLookup(t)
    \/ BindWrite(t)
    \/ BindRevoke(t)
    \/ BindSave(t)

UnbindStep(t) ==
    \/ UnbindRevoke(t)
    \/ UnbindDelete(t)
    \/ UnbindClose(t)

SelfRenewerStep(r) ==
    \/ renewVaultTokenLookup(r)
    \/ renewVaultToken(r)

AuthRenewerStep(r) ==
    \/ renewAuth(r)
    \/ renewAuthDone(r)
    \/ renewAuthRenewal(r)
    \/ renewAuthStopCh(r)
    \/ renewAuthBrokerStopCh(r)

\* The guids the platform sends with a provision request; the space guid may
\* be the organization's.
ProvisionOrgs == OrgGUIDs
ProvisionSpaces == SpaceGUIDs \cup OrgGUIDs

\* The broker serves requests once Start has succeeded (main starts the HTTP
\* server after Start).
Serving == running

(***************************************************************************)
(* Initial states                                                          *)
(***************************************************************************)

\* A vault that holds nothing but, maybe, mounts.
EmptyVault ==
    /\ vPolicies = EmptyMap
    /\ vRoles = EmptyMap
    /\ vTree = EmptyMap
    /\ nextTok = 1
    /\ vRevoked = {}

\* The broker as main constructs it: nothing served, nothing running.
InitMemory ==
    /\ instances = EmptyMap
    /\ binds = EmptyMap
    /\ running = FALSE
    /\ stopCh = NilCh
    /\ locks = [l \in LockNames |-> NoThread]
    /\ nextCh = 1
    /\ closes = EmptyMap
    /\ pc = [t \in Threads |-> "idle"]
    /\ loc = [t \in Threads |-> NoLocals]
    /\ renewers = <<>>
    /\ nfail = 0
    /\ ncalls = 0
    /\ mountLog = {}
    /\ hist = <<>>

InitBroker ==
    /\ vMounts = EmptyMap
    /\ EmptyVault
    /\ InitMemory

\* The broker after Start in front of an empty vault, Provision(i, o, sp)
\* without platform client and Bind(i, b): Bind has returned its credentials,
\* the renewer of the binding's token is started and has not renewed yet.
Bound(i, o, sp, b) ==
    LET d == Details("", o, "", sp, "", i)
        ms == << Mount("broker", "", "", KV) >> \o vaultMounts(d)
        info == bindingInfo(o, sp, b, Tok(1), Acc(1), 2)
    IN  /\ vMounts = [p \in { Trim(Path(ms[n]), "/") \o "/" : n \in 1..Len(ms) } |->
                        ms[CHOOSE n \in 1..Len(ms) : Trim(Path(ms[n]), "/") \o "/" = p].Type]
        /\ vPolicies = [n \in {"cf-" \o i} |-> GeneratePolicy(d)]
        /\ vRoles = [n \in {"/auth/token/roles/cf-" \o i} |-> tokenRole("cf-" \o i)]
        /\ vTree = With([n \in {"cf/broker/" \o i} |-> Envelope(MarshalDetails(d))],
                        "cf/broker/" \o i \o "/" \o b,
                        Envelope(MarshalBindingInfo(info)))
        /\ nextTok = 2
        /\ vRevoked = {}
        /\ instances = [n \in {i} |-> d]
        /\ binds = [n \in {b} |-> info]
        /\ running = TRUE
        /\ stopCh = 1
        /\ locks = [l \in LockNames |-> NoThread]
        /\ nextCh = 3
        /\ closes = [c \in {1, 2} |-> 0]
        /\ pcfClient = FALSE
        /\ pc = [t \in Threads |-> "idle"]
        /\ loc = [t \in Threads |-> NoLocals]
        /\ nfail = 0

\* SpecSeq reaches this state from the constructed broker (vaultRenewToken
\* unset) by Start, Provision("i1", "o1", "s1") and Bind("i1", "b1").
BoundFromConstruction ==
    /\ Bound("i1", "o1", "s1", "b1")
    /\ renewers = << [renewAuthTask(Tok(1), Acc(1), 2) EXCEPT !.born = 1] >>

\* The same with the invocations that are left to make, and nothing recorded.
InitBound(i, o, sp, b) ==
    /\ Bound(i, o, sp, b)
    /\ ncalls = MaxCalls - ConcurrentCalls
    /\ mountLog = {}
    /\ hist = <<>>
    /\ fin = <<>>
    /\ fout = <<>>

\* Concurrent requests are explored from a broker that serves one instance
\* with one binding and does not renew its own token.
Init ==
    /\ InitBound("i1", "o1", "s1", "b1")
    /\ vaultRenewToken = FALSE
    /\ renewers = << [renewAuthTask(Tok(1), Acc(1), 2) EXCEPT !.born = 1] >>

Next ==
    \/ \E t \in Threads :
         \/ CallStart(t)
         \/ StartStep(t)
         \/ CoordinatorStep(t)
         \/ Stop(t)
         \/ Serving /\ \E i \in Range(InstanceIDs), o \in ProvisionOrgs, sp \in ProvisionSpaces :
                          Provision(t, i, o, sp)
         \/ ProvisionStep(t)
         \/ Serving /\ \E i \in Range(InstanceIDs) : Deprovision(t, i)
         \/ DeprovisionStep(t)
         \/ Serving /\ \E i \in Range(InstanceIDs), b \in Range(BindingIDs) : Bind(t, i, b)
         \/ BindStep(t)
         \/ Serving /\ \E i \in Range(InstanceIDs), b \in Range(BindingIDs) : Unbind(t, i, b)
         \/ UnbindStep(t)
         \/ Finish(t, FALSE)
    \/ \E r \in 1..Len(renewers) : AuthRenewerStep(r)

Spec == Init /\ [][Next]_vars

(***************************************************************************)
(* One client, one request at a time                                       *)
(***************************************************************************)

InitSeq ==
    /\ InitBroker
    /\ fin = <<>>
    /\ fout = <<>>
    /\ pcfClient \in BOOLEAN
    /\ vaultRenewToken = FALSE

\* The steps Start takes in front of a vault that holds no instance.
StartEmptyStep(t) ==
    \/ StartBegin(t)
    \/ StartList(t)
    \/ restoreInstance(t)
    \/ StartLock(t)
    \/ StartFinish(t)

NextSeq ==
    \/ CallStart(1)
    \/ StartEmptyStep(1)
    \/ CoordinatorStep(1)
    \/ Serving /\ \E i \in Range(InstanceIDs), o \in ProvisionOrgs, sp \in ProvisionSpaces :
                     Provision(1, i, o, sp)
    \/ ProvisionStep(1)
    \/ Serving /\ \E i \in Range(InstanceIDs) : Deprovision(1, i)
    \/ DeprovisionStep(1)
    \/ Serving /\ \E i \in Range(InstanceIDs), b \in Range(BindingIDs) : Bind(1, i, b)
    \/ BindStep(1)
    \/ Serving /\ \E i \in Range(InstanceIDs), b \in Range(BindingIDs) : Unbind(1, i, b)
    \/ UnbindStep(1)
    \/ Finish(1, TRUE)

SpecSeq == InitSeq /\ [][NextSeq]_vars


(***************************************************************************)
(* Claims about concurrent requests                                        *)
(***************************************************************************)

\* Invocation t has returned from op without error.
Returned(t, op) == pc[t] = "done" /\ loc[t].op = op /\ loc[t].err = ""

\* The renewer tasks started on the stop channel of a binding.
BindingRenewers(info) ==
    { r \in 1..Len(renewers) :
        renewers[r].kind = "auth" /\ renewers[r].stopCh = info.stopCh }

Running(r) == renewers[r].pc # "exit"

\* C1: every BindingInfo in the binds index has exactly one running renewer
\* task.
C1_ExactlyOneRunningRenewer ==
    \A b \in DOMAIN binds :
        Cardinality({ r \in BindingRenewers(binds[b]) : Running(r) }) = 1

\* C1 (amended): every BindingInfo in the binds index has exactly one renewer
\* task, started for its token on its stop channel, and that channel is
\* open; the task may have ended (failed renewal, streaming renewer done,
\* broker stopped) while the binding stays in the index.
C1_OneRenewerStarted ==
    \A b \in DOMAIN binds :
        /\ Cardinality(BindingRenewers(binds[b])) = 1
        /\ ~Closed(binds[b].stopCh)
        /\ \A r \in BindingRenewers(binds[b]) :
             /\ renewers[r].token = binds[b].ClientToken
             /\ renewers[r].accessor = binds[b].Accessor

\* The binding made by a Bind("i1", "b2") is in the index, the broker runs,
\* and the binding's renewer has ended.
C1_Witness ==
    /\ running
    /\ "b2" \in DOMAIN binds
    /\ \E r \in BindingRenewers(binds["b2"]) : ~Running(r)

\* C3: every InstanceDetails in the instances index has a persisted object at
\* cf/broker/<instance-guid> that holds the same content.
C3_IndexedInstancePersisted ==
    \A i \in DOMAIN instances :
        /\ ("cf/broker/" \o i) \in DOMAIN vTree
        /\ decodeDetails(vTree["cf/broker/" \o i]) = [err |-> "", val |-> instances[i]]

\* The same with no request in progress.
IndexedInstancePersistedAtRest ==
    (\A t \in Threads : pc[t] = "idle") => C3_IndexedInstancePersisted

(***************************************************************************)
(* Recovery: Start in front of a persisted tree                            *)
(***************************************************************************)

\* The persisted trees: each instance absent, or present with some bindings;
\* every binding holds a token of its own.
TokenOf(i, b) ==
    LET n == CHOOSE k \in 1..Len(InstanceIDs) : InstanceIDs[k] = i
        m == CHOOSE k \in 1..Len(BindingIDs) : BindingIDs[k] = b
    IN  (n - 1) * Len(BindingIDs) + m

PersistedInfo(i, b) ==
    bindingInfo("o1", "s1", b, Tok(TokenOf(i, b)), Acc(TokenOf(i, b)), NilCh)

PersistedTree(bs) ==
    LET paths == { "cf/broker/" \o i : i \in { e[1] : e \in bs } }
                 \cup { "cf/broker/" \o e[1] \o "/" \o e[2] : e \in { x \in bs : x[2] # "" } }
    IN  [p \in paths |->
            LET e == CHOOSE x \in bs :
                        p = IF x[2] = "" THEN "cf/broker/" \o x[1]
                            ELSE "cf/broker/" \o x[1] \o "/" \o x[2]
            IN  IF e[2] = ""
                THEN Envelope(MarshalDetails(Details("", "o1", "", "s1", "", e[1])))
                ELSE Envelope(MarshalBindingInfo(PersistedInfo(e[1], e[2])))]

\* <<i, "">> stands for the instance object, <<i, b>> for a binding of i.
PersistedSets ==
    { bs \in SUBSET (Range(InstanceIDs) \X ({""} \cup Range(BindingIDs))) :
        \A e \in bs : <<e[1], "">> \in bs }

\* The vault an earlier run left with the persisted set bs: every instance
\* has its mounts, its policy and its token role.
RecoverVault(bs) ==
    LET ids == { e[1] : e \in bs }
        d(i) == Details("", "o1", "", "s1", "", i)
        paths == {"cf/broker/", "cf/o1/secret/", "cf/s1/secret/"}
                 \cup { "cf/" \o i \o "/secret/" : i \in ids }
                 \cup { "cf/" \o i \o "/transit/" : i \in ids }
    IN  /\ vMounts = [p \in (IF ids = {} THEN {"cf/broker/"} ELSE paths) |->
                        IF \E i \in ids : p = "cf/" \o i \o "/transit/"
                        THEN Transit ELSE KV]
        /\ vPolicies = [n \in { "cf-" \o i : i \in ids } |->
                          GeneratePolicy(d(CHOOSE i \in ids : n = "cf-" \o i))]
        /\ vRoles = [n \in { "/auth/token/roles/cf-" \o i : i \in ids } |->
                       tokenRole(CHOOSE x \in { "cf-" \o i : i \in ids } :
                                    n = "/auth/token/roles/" \o x)]
        /\ vTree = PersistedTree(bs)
        /\ nextTok = Len(InstanceIDs) * Len(BindingIDs) + 1
        /\ vRevoked = {}

\* The broker as main constructs it, in front of the vault an earlier run
\* left; it renews its own token.
InitRecover ==
    /\ \E bs \in PersistedSets : RecoverVault(bs)
    /\ InitMemory
    /\ pcfClient = FALSE
    /\ vaultRenewToken = TRUE
    /\ fin = <<>>
    /\ fout = <<>>

NextRecover ==
    \/ CallStart(1)
    \/ StartStep(1)
    \/ CoordinatorLock(1)
    \/ CoordinatorList(1)
    \/ idempotentMount(1)
    \/ Finish(1, TRUE)
    \/ \E r \in 1..Len(renewers) : SelfRenewerStep(r)

SpecRecover == InitRecover /\ [][NextRecover]_vars

PersistedInstances ==
    { i \in Range(InstanceIDs) : ("cf/broker/" \o i) \in DOMAIN vTree }

PersistedBindings ==
    { e \in Range(InstanceIDs) \X Range(BindingIDs) :
        ("cf/broker/" \o e[1] \o "/" \o e[2]) \in DOMAIN vTree }

\* The renewer tasks started for a token.
TokenRenewers(token) ==
    { r \in 1..Len(renewers) : renewers[r].kind = "auth" /\ renewers[r].token = token }

\* C2: when Start returns without error on an empty memory, the instances
\* index holds exactly the persisted instances, the binds index exactly the
\* persisted bindings, and exactly one renewer task has been started for the
\* token of each persisted binding.
C2_RecoveryRestoresAll ==
    \A t \in Threads :
        Returned(t, "Start") =>
            /\ DOMAIN instances = PersistedInstances
            /\ \A i \in PersistedInstances :
                 instances[i] = decodeDetails(vTree["cf/broker/" \o i]).val
            /\ { [binds[b] EXCEPT !.stopCh = NilCh] : b \in DOMAIN binds }
                 = { PersistedInfo(e[1], e[2]) : e \in PersistedBindings }
            /\ \A e \in PersistedBindings :
                 Cardinality(TokenRenewers(PersistedInfo(e[1], e[2]).ClientToken)) = 1

\* What recovery does achieve: the instances index is exact, every persisted
\* binding's token has a renewer, and the binds index is exact when no
\* binding id is used under two instances.
RecoveryRestoresAtLeast ==
    \A t \in Threads :
        Returned(t, "Start") =>
            /\ DOMAIN instances = PersistedInstances
            /\ \A e \in PersistedBindings :
                 TokenRenewers(PersistedInfo(e[1], e[2]).ClientToken) # {}
            /\ (\A e, f \in PersistedBindings : e[2] = f[2] => e = f) =>
                 { [binds[b] EXCEPT !.stopCh = NilCh] : b \in DOMAIN binds }
                   = { PersistedInfo(e[1], e[2]) : e \in PersistedBindings }

(***************************************************************************)
(* Stop and Start next to the renewers, under fair scheduling              *)
(***************************************************************************)

MaxRenewers == 6       \* renewer tasks in one behaviour of SpecFair

\* One instance, one binding, both renewers started; Stop and Start follow.
InitFair ==
    /\ InitBound("i1", "o1", "s1", "b1")
    /\ vaultRenewToken = TRUE
    /\ renewers = << [renewVaultTokenTask EXCEPT !.born = 1],
                     [renewAuthTask(Tok(1), Acc(1), 2) EXCEPT !.born = 1] >>

NextFair ==
    \/ Stop(1)
    \/ CallStart(1)
    \/ StartStep(1)
    \/ CoordinatorLock(1)
    \/ CoordinatorList(1)
    \/ idempotentMount(1)
    \/ Finish(1, FALSE)
    \/ \E r \in 1..Len(renewers) : SelfRenewerStep(r) \/ AuthRenewerStep(r)

\* The steps a scheduled renewer takes by itself: its vault calls and the
\* receive from a closed stop channel.  That the streaming renewer reports a
\* renewal or gives up is up to the vault.
RenewerProgress(r) ==
    /\ r \in 1..Len(renewers)
    /\ \/ renewVaultTokenLookup(r)
       \/ renewVaultToken(r)
       \/ renewAuth(r)
       \/ renewAuthStopCh(r)
       \/ renewAuthBrokerStopCh(r)

\* The steps of a Start that has been called.
StartProgress ==
    \/ StartStep(1)
    \/ CoordinatorLock(1)
    \/ CoordinatorList(1)
    \/ idempotentMount(1)
    \/ Finish(1, FALSE)

SpecFair ==
    /\ InitFair
    /\ [][NextFair]_vars
    /\ WF_vars(StartProgress)
    /\ \A r \in 1..MaxRenewers : SF_vars(RenewerProgress(r))

\* Renewer r was started under a broker-wide stop channel that Stop has closed.
StoppedOver(r) == r \in 1..Len(renewers) /\ Closed(renewers[r].born)

Exited(r) == r \in 1..Len(renewers) /\ renewers[r].pc = "exit"

\* C7: after Stop, every renewer task started before it, per-binding renewer
\* or self-renewer, whatever step it was in, eventually terminates under fair
\* scheduling.
C7_RenewersTerminateAfterStop ==
    \A r \in 1..MaxRenewers : StoppedOver(r) ~> Exited(r)

\* The same as long as no Start follows the Stop.
RenewersTerminateWithoutRestart ==
    \A r \in 1..MaxRenewers : StoppedOver(r) ~> (Exited(r) \/ stopCh # 1)

(***************************************************************************)
(* Claims about one request at a time                                      *)
(***************************************************************************)

\* C8: with no platform client, when Provision(I, O, S) returns without error
\* the object at cf/broker/I decodes to {O, S, I}, the mounts cf/O/secret,
\* cf/S/secret, cf/I/secret and cf/I/transit exist, the policy cf-I exists, the
\* token role /auth/token/roles/cf-I allows cf-I with period 432000 and is
\* renewable, and I is in the instances index.
C8_ProvisionHappyPath ==
    \A t \in Threads :
        (Returned(t, "Provision") /\ ~pcfClient) =>
            LET I == loc[t].instanceID
                O == loc[t].org
                S == loc[t].space
                role == "/auth/token/roles/cf-" \o I
            IN  /\ ("cf/broker/" \o I) \in DOMAIN vTree
                /\ decodeDetails(vTree["cf/broker/" \o I]) =
                       [err |-> "", val |-> Details("", O, "", S, "", I)]
                /\ InUse("cf/" \o O \o "/secret")
                /\ InUse("cf/" \o S \o "/secret")
                /\ InUse("cf/" \o I \o "/secret")
                /\ InUse("cf/" \o I \o "/transit")
                /\ ("cf-" \o I) \in DOMAIN vPolicies
                /\ role \in DOMAIN vRoles
                /\ vRoles[role] = [allowed_policies |-> "cf-" \o I,
                                   period |-> 432000, renewable |-> TRUE]
                /\ I \in DOMAIN instances

\* Provision("i1", "o1", "s1") has returned without error, no platform client.
C8_Witness ==
    /\ Returned(1, "Provision")
    /\ ~pcfClient
    /\ loc[1].instanceID = "i1"
    /\ loc[1].org = "o1"
    /\ loc[1].space = "s1"
    /\ nfail = 0

\* Two Provision calls in a row with the same arguments and the same names,
\* both without error, leave the same vault and the same index.
ProvisionTwiceSameState ==
    \A k \in 1..(Len(hist) - 1) :
        (/\ hist[k].op = "Provision"
         /\ hist[k + 1].op = "Provision"
         /\ hist[k].err = ""
         /\ hist[k + 1].err = ""
         /\ hist[k].details = hist[k + 1].details)
        => hist[k + 1].state = hist[k].state

\* No mount request was sent for a path the vault had mounted.
NoMountRequestForMountedPath ==
    \A r \in mountLog : r.kind = "mount" => ~r.mounted

\* C9: Provision(I, O, S) twice in sequence yields the same vault state and
\* instances index as once, and no mount request is ever issued for a path
\* that is already mounted, also when two of O, S, I coincide.
C9_ProvisionIdempotent ==
    /\ ProvisionTwiceSameState
    /\ NoMountRequestForMountedPath

\* C10: when Bind(I, B) returns without error, the object at cf/broker/I/B
\* holds the org and space guid of I, B, and the issued token and accessor; B
\* is in the binds index; the credentials carry the issued accessor and token,
\* cf/I/secret, cf/I/transit, cf/<org-guid>/secret and cf/<space-guid>/secret.
C10_BindPostcondition ==
    \A t \in Threads :
        Returned(t, "Bind") =>
            LET I == loc[t].instanceID
                B == loc[t].bindingID
                path == "cf/broker/" \o I \o "/" \o B
                token == Tok(nextTok - 1)
                accessor == Acc(nextTok - 1)
                creds == loc[t].creds
            IN  /\ I \in DOMAIN instances
                /\ path \in DOMAIN vTree
                /\ decodeBindingInfo(vTree[path]) =
                       [err |-> "",
                        val |-> bindingInfo(instances[I].OrganizationGUID,
                                            instances[I].SpaceGUID, B, token,
                                            accessor, NilCh)]
                /\ B \in DOMAIN binds
                /\ creds.auth = [accessor |-> accessor, token |-> token]
                /\ creds.backends.generic = "cf/" \o I \o "/secret"
                /\ creds.backends.transit = "cf/" \o I \o "/transit"
                /\ creds.backends_shared.organization =
                       "cf/" \o instances[I].OrganizationGUID \o "/secret"
                /\ creds.backends_shared.space =
                       "cf/" \o instances[I].SpaceGUID \o "/secret"

\* Bind("i1", "b1") has returned the credentials of the first token.
C10_Witness ==
    /\ Returned(1, "Bind")
    /\ loc[1].instanceID = "i1"
    /\ loc[1].bindingID = "b1"
    /\ loc[1].creds.auth.token = Tok(1)
    /\ "b1" \in DOMAIN binds

(***************************************************************************)
(* The mount coordinator, called with one mount set again and again        *)
(***************************************************************************)

MaxMounts == 2         \* mounts in the set handed to the coordinator

CoordinatorMounts ==
    { Mount("", "", "o1", KV), Mount("", "", "i1", Transit),
      Mount("broker", "", "", KV) }

\* The mount sets: every list of at most MaxMounts mounts, repeats included.
MountSets == UNION { [1..n -> CoordinatorMounts] : n \in 0..MaxMounts }

\* The mount tables the vault may start with.
MountTables ==
    { [p \in paths |-> IF p = "cf/i1/transit/" THEN Transit ELSE KV] :
        paths \in SUBSET {"cf/o1/secret/", "cf/i1/transit/", "secret/"} }

InitMount ==
    /\ vMounts \in MountTables
    /\ EmptyVault
    /\ InitMemory
    /\ pcfClient = FALSE
    /\ vaultRenewToken = FALSE
    /\ fin \in MountSets
    /\ fout = <<>>

\* b.idempotentMount(mounts)
CallIdempotentMount(t) ==
    /\ pc[t] = "idle"
    /\ ncalls < MaxCalls
    /\ ncalls' = ncalls + 1
    /\ Set(t, [NoLocals EXCEPT !.op = "idempotentMount", !.mounts = fin,
                               !.after = "done"])
    /\ Goto(t, "m_lock")
    /\ UNCHANGED <<vaultVars, brokerVars, renewers, nfail, mountLog, hist, pureVars>>

\* b.idempotentUnmount(mounts)
CallIdempotentUnmount(t) ==
    /\ pc[t] = "idle"
    /\ ncalls < MaxCalls
    /\ ncalls' = ncalls + 1
    /\ Set(t, [NoLocals EXCEPT !.op = "idempotentUnmount", !.mounts = fin,
                               !.after = "done"])
    /\ Goto(t, "u_lock")
    /\ UNCHANGED <<vaultVars, brokerVars, renewers, nfail, mountLog, hist, pureVars>>

NextMount ==
    \/ CallIdempotentMount(1)
    \/ CallIdempotentUnmount(1)
    \/ CoordinatorStep(1)
    \/ Finish(1, TRUE)

SpecMount == InitMount /\ [][NextMount]_vars

\* C4: with no vault call failing, a second mount(S) right after mount(S)
\* leaves the mount table as the first left it and sends no mount request;
\* likewise a second unmount(S) right after unmount(S).
C4_CoordinatorIdempotent ==
    \A k \in 1..(Len(hist) - 1) :
        (/\ hist[k].op \in {"idempotentMount", "idempotentUnmount"}
         /\ hist[k + 1].op = hist[k].op
         /\ hist[k + 1].mounts = hist[k].mounts
         /\ hist[k].err = ""
         /\ hist[k + 1].err = "")
        => /\ hist[k + 1].state.vMounts = hist[k].state.vMounts
           /\ hist[k + 1].nreq = 0

\* mount(S), mount(S), unmount(S), unmount(S), none failing: the first of
\* each pair sent requests for both mounts of S, the second none.
C4_Witness ==
    /\ Len(hist) = 4
    /\ \A k \in 1..4 : hist[k].err = ""
    /\ hist[1].op = "idempotentMount"
    /\ hist[2].op = "idempotentMount"
    /\ hist[3].op = "idempotentUnmount"
    /\ hist[4].op = "idempotentUnmount"
    /\ hist[1].nreq = 2
    /\ hist[2].nreq = 0
    /\ hist[3].nreq = 2
    /\ hist[4].nreq = 0

(***************************************************************************)
(* The pure functions, applied to drawn inputs                             *)
(***************************************************************************)

\* Nothing but the function under check moves.
InitPure ==
    /\ InitBroker
    /\ pcfClient = FALSE
    /\ vaultRenewToken = FALSE
    /\ fout = <<>>

MountAbsolutePaths == {"", "broker", "g/secret"}
MountNames == {"", "a", "a-b"}
MountGUIDs == {"g", "h", "a-g", "b-g"}
MountTypes == {KV, Transit, "pki", "aws"}

Mounts ==
    { Mount(abs, name, guid, type) :
        abs \in MountAbsolutePaths, name \in MountNames,
        guid \in MountGUIDs, type \in MountTypes }

InitPath ==
    /\ InitPure
    /\ fin \in Mounts \X Mounts

\* m1.Path(), m2.Path()
CallPath ==
    /\ fout = <<>>
    /\ fout' = << Path(fin[1]), Path(fin[2]) >>
    /\ UNCHANGED <<vaultVars, brokerVars, taskVars, bookVars, fin>>

SpecPath == InitPath /\ [][CallPath]_vars

\* What tells two mounts apart: the absolute path when one is set, else the
\* effective name, the guid and the engine kind.
MountKey(m) ==
    IF m.AbsolutePath # "" THEN << m.AbsolutePath >>
    ELSE << m.Name, m.GUID, m.Type >>

\* C6: Mount.Path is injective: two Mount values yield the same path iff they
\* are the same mount (same absolute path, or same name, guid and kind).
C6_PathInjective ==
    fout # <<>> => ((fout[1] = fout[2]) <=> (MountKey(fin[1]) = MountKey(fin[2])))

\* The mounts the broker builds: an absolute path is one segment, guids have
\* one length, the kind is KV or Transit.
PlainMount(m) ==
    /\ ~HasChar(m.AbsolutePath, "/")
    /\ m.Type \in {KV, Transit}

\* C6 (amended): on mounts whose absolute path has no "/", whose kind is KV or
\* Transit and whose guids have the same length, two mounts yield the same
\* path iff they are the same mount.
C6_PathInjectiveOnPlainMounts ==
    (/\ fout # <<>>
     /\ PlainMount(fin[1])
     /\ PlainMount(fin[2])
     /\ Len(fin[1].GUID) = Len(fin[2].GUID))
    => ((fout[1] = fout[2]) <=> (MountKey(fin[1]) = MountKey(fin[2])))

\* Two different plain mounts with dashes in name and guid got different paths.
C6_Witness ==
    /\ fout # <<>>
    /\ PlainMount(fin[1])
    /\ PlainMount(fin[2])
    /\ fin[1].AbsolutePath = ""
    /\ fin[2].AbsolutePath = ""
    /\ fin[1].Name = "a-b"
    /\ fin[2].Name = "a"
    /\ fin[1].GUID = "a-g"
    /\ fin[2].GUID = "b-g"
    /\ fin[1].Type = fin[2].Type
    /\ fout[1] # fout[2]

PolicyOrgNames == {"", "org", "r&d"}
PolicySpaceNames == {"", "dev"}
PolicyInstanceNames == {"", "db", "a+b"}
PolicyOrgGUIDs == {"o1"}
PolicySpaceGUIDs == {"s1", "o1"}
PolicyInstanceGUIDs == {"i1", "s1"}

InitPolicy ==
    /\ InitPure
    /\ \E on \in PolicyOrgNames, og \in PolicyOrgGUIDs,
          sn \in PolicySpaceNames, sg \in PolicySpaceGUIDs,
          in \in PolicyInstanceNames, ig \in PolicyInstanceGUIDs :
         fin = Details(on, og, sn, sg, in, ig)

\* GeneratePolicy(w, details)
CallGeneratePolicy ==
    /\ fout = <<>>
    /\ fout' = GeneratePolicy(fin)
    /\ UNCHANGED <<vaultVars, brokerVars, taskVars, bookVars, fin>>

SpecPolicy == InitPolicy /\ [][CallGeneratePolicy]_vars

\* The path of a scope's mounts, by guid and by name and guid.
ScopeGlob(guid) == "cf/" \o guid \o "/*"
NamedScopeGlob(name, guid) == "cf/" \o name \o "-" \o guid \o "/*"

\* C5: the rendered policy grants exactly read, list on cf/<org-guid>/*, and
\* create, read, update, delete, list on cf/<space-guid>/* and on
\* cf/<instance-guid>/*; with all three names set, the <name>-<guid> path of
\* each scope carries the capabilities of its guid-only path.
C5_PolicyCapabilities ==
    fout # <<>> =>
        /\ Grants(fout, ScopeGlob(fin.OrganizationGUID)) = Range(ReadOnly)
        /\ Grants(fout, ScopeGlob(fin.SpaceGUID)) = Range(ReadWrite)
        /\ Grants(fout, ScopeGlob(fin.ServiceInstanceGUID)) = Range(ReadWrite)
        /\ NamesPopulated(fin) =>
             /\ Grants(fout, NamedScopeGlob(fin.OrganizationName, fin.OrganizationGUID))
                  = Grants(fout, ScopeGlob(fin.OrganizationGUID))
             /\ Grants(fout, NamedScopeGlob(fin.SpaceName, fin.SpaceGUID))
                  = Grants(fout, ScopeGlob(fin.SpaceGUID))
             /\ Grants(fout, NamedScopeGlob(fin.ServiceInstanceName,
                                            fin.ServiceInstanceGUID))
                  = Grants(fout, ScopeGlob(fin.ServiceInstanceGUID))

\* The inputs on which the renderer does what C5 says: names that
\* html/template leaves as they are, and three different guids.
PlainDetails(d) ==
    /\ HTMLEscape(d.OrganizationName) = d.OrganizationName
    /\ HTMLEscape(d.SpaceName) = d.SpaceName
    /\ HTMLEscape(d.ServiceInstanceName) = d.ServiceInstanceName
    /\ Cardinality({d.OrganizationGUID, d.SpaceGUID, d.ServiceInstanceGUID}) = 3

PolicyCapabilitiesOnPlainDetails ==
    PlainDetails(fin) => C5_PolicyCapabilities

(***************************************************************************)
(* Locks                                                                   *)
(***************************************************************************)

\* Invocation t is about to send a request to the vault: the statement it is
\* at is a call of the vault client.
AtVaultCall(t) ==
    \/ pc[t] \in {"m_list", "u_list", "s_list", "s_blist", "p_policy", "p_role",
                  "p_write", "d_role", "d_policy", "d_delete", "b_write",
                  "b_revoke", "ub_revoke", "ub_delete"}
    \/ pc[t] = "s_inst" /\ loc[t].keys # <<>>
    \/ pc[t] = "s_bind" /\ loc[t].bkeys # <<>>
    \/ /\ pc[t] = "m_loop"
       /\ loc[t].i <= Len(loc[t].mounts)
       /\ ~Mounted(loc[t].mountPaths, Trim(Path(loc[t].mounts[loc[t].i]), "/"))
    \/ /\ pc[t] = "u_loop"
       /\ loc[t].i <= Len(loc[t].mounts)
       /\ Mounted(loc[t].mountPaths, Trim(Path(loc[t].mounts[loc[t].i]), "/"))

\* C16: no task performs a vault round-trip while it holds the instances
\* lock, the binds lock or the lifecycle lock; only the mount lock may be held
\* across vault calls.
C16_NoVaultCallUnderLock ==
    \A t \in Threads : AtVaultCall(t) => Held(t) \subseteq {"mountMutex"}

\* The same for every operation but Start.
NoVaultCallUnderLockOutsideStart ==
    \A t \in Threads :
        (AtVaultCall(t) /\ loc[t].op # "Start") => Held(t) \subseteq {"mountMutex"}

\* C17: no task holds more than one of the four locks at the same time.
C17_NoNestedLocks ==
    \A t \in Threads : Cardinality(Held(t)) <= 1

\* The same for every operation but Start.
NoNestedLocksOutsideStart ==
    \A t \in Threads : loc[t].op # "Start" => Cardinality(Held(t)) <= 1

(***************************************************************************)
(* Recovery in front of a corrupt persisted object                         *)
(***************************************************************************)

\* Envelopes that do not decode: no "json" key, a value that is no string,
\* a string that is no JSON.
CorruptEnvelopes ==
    { [k \in {"data"} |-> StringValue(JSONObject(<<>>))],
      [k \in {"json"} |-> NumberValue],
      Envelope(JSONGarbage) }

\* Whether the object at path p decodes, as an instance or as a binding.
Decodes(p) == decodeDetails(vTree[p]).err = ""

\* Before the broker starts, one persisted object is overwritten with an
\* envelope that does not decode.
Corrupt ==
    /\ ncalls = 0
    /\ \A p \in DOMAIN vTree : Decodes(p)
    /\ \E p \in DOMAIN vTree, c \in CorruptEnvelopes : vTree' = [vTree EXCEPT ![p] = c]
    /\ UNCHANGED <<vMounts, vPolicies, vRoles, nextTok, vRevoked, brokerVars, taskVars,
                   bookVars, pureVars>>

InitCorrupt ==
    /\ \E bs \in PersistedSets : RecoverVault(bs)
    /\ InitMemory
    /\ pcfClient = FALSE
    /\ vaultRenewToken = FALSE
    /\ fin = <<>>
    /\ fout = <<>>

\* One Start is followed: the first one.
NextCorrupt ==
    \/ Corrupt
    \/ ncalls = 0 /\ CallStart(1)
    \/ StartStep(1)
    \/ CoordinatorLock(1)
    \/ CoordinatorList(1)
    \/ idempotentMount(1)
    \/ Finish(1, TRUE)

SpecCorrupt == InitCorrupt /\ [][NextCorrupt]_vars

\* The persisted instances and bindings whose envelope decodes.
SoundInstances == { i \in PersistedInstances : Decodes("cf/broker/" \o i) }
SoundBindings ==
    { e \in PersistedBindings : Decodes("cf/broker/" \o e[1] \o "/" \o e[2]) }

\* The first Start has returned, in front of a corrupt object, with no vault
\* call failed.
StartedOverCorrupt ==
    /\ Len(hist) = 1
    /\ hist[1].op = "Start"
    /\ nfail = 0
    /\ \E p \in DOMAIN vTree : ~Decodes(p)

\* C15: when a persisted instance or binding object has a corrupt envelope,
\* Start skips that entry: it still returns success, sets running, and
\* restores every other persisted instance and binding.
C15_CorruptEntrySkipped ==
    StartedOverCorrupt =>
        /\ hist[1].err = ""
        /\ running
        /\ SoundInstances \subseteq DOMAIN instances
        /\ \A e \in SoundBindings :
             /\ e[2] \in DOMAIN binds
             /\ TokenRenewers(PersistedInfo(e[1], e[2]).ClientToken) # {}

\* What Start does: it returns the decode error and leaves the broker not
\* running.
StartAbortsOnCorrupt ==
    StartedOverCorrupt =>
        /\ hist[1].err \in {"failed to restore instance data", "failed to restore bind"}
        /\ ~running

(***************************************************************************)
(* Error paths of Bind and Unbind                                          *)
(***************************************************************************)

\* Invocation t takes a step from the statement at label.
StepsFrom(t, label) == pc[t] = label /\ pc'[t] # label

\* C12: when the write of the binding object fails, Bind attempts to revoke
\* the accessor it was issued, returns the persistence error also when the
\* revocation fails, starts no renewer task and leaves the binds index as it
\* was.
C12_BindWriteFailure ==
    [][\A t \in Threads :
         /\ (StepsFrom(t, "b_write") /\ vTree' = vTree) =>
               /\ pc'[t] = "b_revoke"
               /\ UNCHANGED <<renewers, binds, nextCh>>
         /\ StepsFrom(t, "b_revoke") =>
               /\ pc'[t] = "done"
               /\ loc'[t].err = "failed to commit binding"
               /\ vRevoked' \subseteq vRevoked \cup {loc[t].accessor}
               /\ UNCHANGED <<renewers, binds, nextCh, vTree>>]_vars

\* A Bind has returned the persistence error and its revocation had failed:
\* the accessor it was issued is not revoked.
C12_Witness ==
    \E t \in Threads :
        /\ pc[t] = "done"
        /\ loc[t].op = "Bind"
        /\ loc[t].err = "failed to commit binding"
        /\ loc[t].accessor \notin vRevoked

\* A Bind of invocation t returns in this step, for an instance that is not in
\* the instances index, and no vault call of the step was made to fail.
BindReturnsUnknown(t) ==
    /\ pc[t] # "done"
    /\ pc'[t] = "done"
    /\ loc'[t].op = "Bind"
    /\ loc'[t].instanceID \notin DOMAIN instances
    /\ nfail' = nfail

\* The first step of a Bind: the token is asked for, nothing else is touched.
BindCallFrame(t) ==
    (pc[t] = "idle" /\ loc'[t].op = "Bind") => UNCHANGED <<vTree, renewers, binds>>

\* C13: Bind(I, B) for an I that is not in the instances index returns the
\* UnknownInstance error, writes nothing to the persisted tree, starts no
\* renewer task and leaves the binds index as it was.
C13_UnknownInstance ==
    [][\A t \in Threads :
         /\ BindCallFrame(t)
         /\ BindReturnsUnknown(t) =>
               /\ loc'[t].err = "no instance exists"
               /\ UNCHANGED <<vTree, renewers, binds>>]_vars

\* C13 (amended): Bind(I, B) for an I that is not in the instances index
\* returns an error, the UnknownInstance error when the vault issued a token
\* for the role cf-I and the error of the token creation when the vault has
\* no such role; it writes nothing to the persisted tree, starts no renewer
\* task and leaves the binds index as it was.
C13_UnknownInstanceOrRole ==
    [][\A t \in Threads :
         /\ BindCallFrame(t)
         /\ BindReturnsUnknown(t) =>
               /\ loc'[t].err = IF loc'[t].token # "" THEN "no instance exists"
                                ELSE "failed to create token"
               /\ UNCHANGED <<vTree, renewers, binds>>]_vars

\* A Bind was issued a token and returned the UnknownInstance error.
C13_Witness ==
    /\ pc[1] = "done"
    /\ loc[1].op = "Bind"
    /\ loc[1].err = "no instance exists"
    /\ loc[1].token # ""
    /\ loc[1].instanceID \notin DOMAIN instances

(***************************************************************************)
(* Unbind in front of a damaged binding object                             *)
(***************************************************************************)

\* The object at path is missing or holds no data.
MissingOrEmpty(path) == path \notin DOMAIN vTree \/ DOMAIN vTree[path] = {}

\* The binding objects of the persisted tree.
BindingPaths ==
    { p \in DOMAIN vTree :
        \E i \in Range(InstanceIDs), b \in Range(BindingIDs) :
            p = "cf/broker/" \o i \o "/" \o b }

\* One binding object is overwritten with no data or with an envelope that
\* does not decode.
Damage ==
    /\ \A p \in BindingPaths : ~MissingOrEmpty(p) /\ Decodes(p)
    /\ \E p \in BindingPaths, c \in CorruptEnvelopes \cup {NoData} :
         vTree' = [vTree EXCEPT ![p] = c]
    /\ UNCHANGED <<vMounts, vPolicies, vRoles, nextTok, vRevoked, brokerVars, taskVars,
                   bookVars, pureVars>>

NextDamaged ==
    \/ Damage
    \/ \E t \in Threads :
         \/ \E i \in Range(InstanceIDs), b \in Range(BindingIDs) : Unbind(t, i, b)
         \/ UnbindStep(t)
         \/ Finish(t, FALSE)
    \/ \E r \in 1..Len(renewers) : AuthRenewerStep(r)

\* Unbind requests, also concurrent ones, to a broker that serves one
\* instance with one binding.
SpecDamaged == Init /\ [][NextDamaged]_vars

\* C14: Unbind(I, B) when the persisted object cf/broker/I/B is missing or
\* empty, or when its envelope fails to decode, returns an error without
\* revoking an accessor, without deleting from the persisted tree and without
\* closing a stop channel, and leaves the binds index as it was.
C14_UnbindUnreadable ==
    [][\A t \in Threads :
         (pc[t] = "idle" /\ loc'[t].op = "Unbind") =>
            LET path == "cf/broker/" \o loc'[t].instanceID \o "/" \o loc'[t].bindingID
            IN  (MissingOrEmpty(path) \/ decodeBindingInfo(vTree[path]).err # "") =>
                   /\ pc'[t] = "done"
                   /\ loc'[t].err =
                        IF nfail' # nfail THEN "failed to read binding info"
                        ELSE IF MissingOrEmpty(path) THEN "missing bind info for unbind"
                        ELSE "failed to decode binding info"
                   /\ UNCHANGED <<vRevoked, vTree, closes, binds, renewers>>]_vars

\* An Unbind of the indexed binding has returned the decode error.
C14_Witness ==
    \E t \in Threads :
        /\ pc[t] = "done"
        /\ loc[t].op = "Unbind"
        /\ loc[t].err = "failed to decode binding info"
        /\ loc[t].bindingID \in DOMAIN binds

(***************************************************************************)
(* Stop channels                                                           *)
(***************************************************************************)

CycleCalls == 3

InitCycle ==
    /\ Bound("i1", "o1", "s1", "b1")
    /\ ncalls = MaxCalls - CycleCalls
    /\ mountLog = {}
    /\ hist = <<>>
    /\ fin = <<>>
    /\ fout = <<>>
    /\ vaultRenewToken = FALSE
    /\ renewers = << [renewAuthTask(Tok(1), Acc(1), 2) EXCEPT !.born = 1] >>

NextCycle ==
    \/ \E t \in Threads :
         \/ CallStart(t)
         \/ StartStep(t)
         \/ CoordinatorLock(t)
         \/ CoordinatorList(t)
         \/ idempotentMount(t)
         \/ Stop(t)
         \/ Serving /\ \E i \in Range(InstanceIDs), b \in Range(BindingIDs) : Bind(t, i, b)
         \/ BindStep(t)
         \/ Serving /\ \E i \in Range(InstanceIDs), b \in Range(BindingIDs) : Unbind(t, i, b)
         \/ UnbindStep(t)
         \/ Finish(t, FALSE)

\* Start, Stop, Bind and Unbind requests, also concurrent ones, to a broker
\* that serves one instance with one binding.  The renewer tasks take no
\* steps here: they close no channel and write nothing a handler reads.
SpecCycle == InitCycle /\ [][NextCycle]_vars

\* C18: under any sequence and interleaving of Start, Stop, Bind and Unbind
\* calls, no stop channel, per-binding or broker-wide, is closed more than
\* once.
C18_NoDoubleClose == \A ch \in DOMAIN closes : closes[ch] <= 1


\* Two concurrent Unbind requests for the indexed binding b1 have both
\* passed the bindLock section and returned without error.
C18_Witness ==
    /\ \A t \in Threads :
         /\ pc[t] = "done"
         /\ loc[t].op = "Unbind"
         /\ loc[t].bindingID = "b1"
         /\ loc[t].err = ""
    /\ closes[2] = 1

\* The broker was stopped, started again and stopped again.
StoppedTwice == ~running /\ stopCh # 1 /\ closes[1] = 1 /\ closes[stopCh] = 1

\* C19: Start on a broker that is already running is a no-op: it allocates no
\* new broker-wide stop channel, spawns no renewer or self-renewer task, and
\* leaves both indexes unchanged.  Stop on a broker that is not running is a
\* no-op: it closes no channel and leaves the running flag false.
C19_LifecycleNoOps ==
    [][\A t \in Threads :
         /\ (StepsFrom(t, "s_begin") /\ running) =>
               /\ pc'[t] = "done"
               /\ loc'[t].err = ""
               /\ UNCHANGED <<stopCh, nextCh, closes, renewers, instances, binds, running>>
         /\ (pc[t] = "idle" /\ pc'[t] = "done" /\ loc'[t].op = "Stop" /\ ~running) =>
               /\ UNCHANGED <<stopCh, nextCh, closes, renewers, instances, binds>>
               /\ ~running']_vars

\* A Start met the running broker and returned at once; after it the broker
\* was stopped, and a second Stop met the stopped broker.
C19_Witness ==
    /\ \E t \in Threads :
         /\ pc[t] = "done"
         /\ loc[t].op = "Start"
         /\ loc[t].err = ""
         /\ loc[t].mounts = <<>>
    /\ \E t \in Threads : pc[t] = "done" /\ loc[t].op = "Stop"
    /\ ncalls = MaxCalls
    /\ ~running
    /\ stopCh = 1
    /\ closes[1] = 1


(***************************************************************************)
(* Unbind and the renewer of the binding                                   *)
(***************************************************************************)

\* The binding objects of the persisted tree that hold the token.
PersistedWith(token) ==
    { p \in BindingPaths :
        /\ ~MissingOrEmpty(p)
        /\ decodeBindingInfo(vTree[p]).err = ""
        /\ decodeBindingInfo(vTree[p]).val.ClientToken = token }

\* The renewer tasks whose per-binding stop channel is closed: an Unbind has
\* gone through its bindLock section with the index entry of their binding.
Unbound == { r \in 1..Len(renewers) : renewers[r].kind = "auth" /\ Closed(renewers[r].stopCh) }

\* C11: when Unbind(I, B) has returned for a binding created by Bind(I, B),
\* the accessor of the binding's token is revoked, the persisted object of
\* the binding is gone and the binding is out of the binds index; the
\* binding's renewer can observe its per-binding stop signal only after the
\* revocation and the deletion have happened.
C11_StopAfterRevokeAndDelete ==
    \A r \in Unbound :
        /\ renewers[r].accessor \in vRevoked
        /\ PersistedWith(renewers[r].token) = {}
        /\ \A b \in DOMAIN binds : binds[b].ClientToken # renewers[r].token

\* The stop channel of the renewer of the first binding is closed, its
\* accessor is not revoked, and no request is in flight.
StoppedUnrevoked ==
    /\ 1 \in Unbound
    /\ renewers[1].accessor \notin vRevoked
    /\ \A t \in Threads : pc[t] \in {"idle", "done"}


\* One client, one request at a time, to a broker that serves one instance
\* with one binding: further instances are provisioned, bindings made and
\* bindings removed.
NextShared ==
    \/ \E i \in Range(InstanceIDs), o \in ProvisionOrgs, sp \in ProvisionSpaces :
         Provision(1, i, o, sp)
    \/ ProvisionStep(1)
    \/ CoordinatorLock(1)
    \/ CoordinatorList(1)
    \/ idempotentMount(1)
    \/ \E i \in Range(InstanceIDs), b \in Range(BindingIDs) : Bind(1, i, b)
    \/ BindStep(1)
    \/ \E i \in Range(InstanceIDs), b \in Range(BindingIDs) : Unbind(1, i, b)
    \/ UnbindStep(1)
    \/ Finish(1, TRUE)

SpecShared == InitCycle /\ [][NextShared]_vars

\* C20: Unbind(I, B) closes only the stop channel of the renewer that renews
\* the token issued for (I, B); the renewer of any other binding, also of a
\* binding with the same binding-id B under a different instance, is not
\* stopped by it.
C20_UnbindStopsOwnRenewer ==
    [][\A t \in Threads :
         StepsFrom(t, "ub_close") =>
            \A r \in 1..Len(renewers) :
               (renewers[r].kind = "auth" /\ closes'[renewers[r].stopCh] # closes[renewers[r].stopCh])
                  => renewers[r].token = loc[t].info.ClientToken]_vars

\* Unbind("i1", "b1") has returned, the renewer of the token issued for a
\* binding of another instance is stopped, and that token is not revoked.
OtherInstanceStopped ==
    /\ Returned(1, "Unbind")
    /\ loc[1].instanceID = "i1"
    /\ \E r \in Unbound :
         /\ renewers[r].token # loc[1].info.ClientToken
         /\ renewers[r].accessor \notin vRevoked
         /\ PersistedWith(renewers[r].token) = {"cf/broker/i2/b1"}


(***************************************************************************)
(* The unmount requests of Deprovision                                     *)
(***************************************************************************)

\* The mounts that belong to instance id alone: the two guid mounts and,
\* for an indexed instance with a name, the two named mounts.
OwnMountPaths(id, ok, instance) ==
    {"cf/" \o id \o "/secret", "cf/" \o id \o "/transit"} \cup
    (IF ok /\ instance.ServiceInstanceName # ""
     THEN {"cf/" \o instance.ServiceInstanceName \o "-" \o id \o "/secret",
           "cf/" \o instance.ServiceInstanceName \o "-" \o id \o "/transit"}
     ELSE {})

\* The paths of the unmount set of invocation t.
UnmountSetPaths(t) == { Trim(Path(loc[t].mounts[n]), "/") : n \in 1..Len(loc[t].mounts) }

\* C21: Deprovision(I) requests unmount of exactly the two guid mounts of I,
\* plus the two named mounts only when I is in the instances index and has a
\* non-empty instance name; it never requests unmount of an organization or
\* space mount.  Every path of the unmount set is one of these, and no more
\* unmount requests are sent than there are such paths.
C21_DeprovisionUnmounts ==
    \A t \in Threads :
        (loc[t].op = "Deprovision" /\ pc[t] # "idle") =>
            /\ UnmountSetPaths(t) = OwnMountPaths(loc[t].instanceID, loc[t].ok, loc[t].details)
            /\ loc[t].nreq <= Cardinality(OwnMountPaths(loc[t].instanceID, loc[t].ok,
                                                        loc[t].details))

\* The paths alone: Deprovision asks for no unmount outside the mounts of
\* the instance.
DeprovisionUnmountsOwnPaths ==
    \A t \in Threads :
        (loc[t].op = "Deprovision" /\ pc[t] # "idle") =>
            UnmountSetPaths(t) = OwnMountPaths(loc[t].instanceID, loc[t].ok, loc[t].details)

\* Deprovision of an indexed instance without a name has sent four unmount
\* requests and returned without error.
UnmountedTwice ==
    \E t \in Threads :
        /\ Returned(t, "Deprovision")
        /\ loc[t].ok
        /\ loc[t].details.ServiceInstanceName = ""
        /\ loc[t].nreq = 4


(***************************************************************************)
(* Error paths of Provision and Deprovision                                *)
(***************************************************************************)

\* Invocation t of op returns an error in this step.
Fails(t, op) ==
    /\ pc[t] # "done"
    /\ pc'[t] = "done"
    /\ loc'[t].op = op
    /\ loc'[t].err # ""

\* The error of Provision for the step it fails in.
ProvisionErrorAt(label) ==
    CASE label = "idle"     -> "platform lookup failed"
      [] label = "p_policy" -> "failed to create policy"
      [] label = "p_role"   -> "failed to create token role"
      [] label = "p_write"  -> "failed to commit instance"
      [] OTHER              -> "failed to create mounts"

\* C22: if a step of Provision fails (name lookup, policy write, token-role
\* write, mount, persistence write), Provision returns the error of that step
\* at once: the failing step changes neither the vault nor the indexes, the
\* effects of the steps before it stay in the vault (policy, token role,
\* mounts), and the call has written nothing at all when the name lookup
\* fails.
C22_ProvisionFailure ==
    [][\A t \in Threads :
         Fails(t, "Provision") =>
            LET id == loc'[t].instanceID
                passed == { "p_role", "m_lock", "m_list", "m_loop", "p_write" }
            IN  /\ UNCHANGED <<vMounts, vPolicies, vRoles, vTree, vRevoked, instances, binds>>
                /\ loc'[t].err = ProvisionErrorAt(pc[t])
                /\ pc[t] \in passed =>
                      /\ ("cf-" \o id) \in DOMAIN vPolicies
                      /\ vPolicies["cf-" \o id] = GeneratePolicy(loc[t].details)
                /\ pc[t] \in passed \ {"p_role"} =>
                      ("/auth/token/roles/cf-" \o id) \in DOMAIN vRoles
                /\ pc[t] = "m_loop" =>
                      \A n \in 1..(loc[t].i - 1) : InUse(Trim(Path(loc[t].mounts[n]), "/"))
                /\ pc[t] = "p_write" =>
                      \A n \in 1..Len(loc[t].mounts) : InUse(Trim(Path(loc[t].mounts[n]), "/"))
                /\ pc[t] = "idle" => loc'[t].mounts = <<>>]_vars

\* Provision of a new instance has returned the token-role error; its
\* policy is in the vault and the instance is not in the index.
C22_Witness ==
    \E t \in Threads :
        /\ pc[t] = "done"
        /\ loc[t].op = "Provision"
        /\ loc[t].err = "failed to create token role"
        /\ ("cf-" \o loc[t].instanceID) \in DOMAIN vPolicies
        /\ loc[t].instanceID \notin DOMAIN instances


\* The error of Deprovision for the step it fails in.
DeprovisionErrorAt(label) ==
    CASE label = "d_role"   -> "failed to delete token role"
      [] label = "d_policy" -> "failed to delete policy"
      [] label = "d_delete" -> "failed to delete instance info"
      [] OTHER              -> "failed to remove mounts"

\* The state a Deprovision(id) without failures leaves when it starts in s.
Deprovisioned(s, id) ==
    LET ok == id \in DOMAIN s.instances
        own == OwnMountPaths(id, ok, IF ok THEN s.instances[id] ELSE NoDetails)
    IN  [s EXCEPT !.vMounts = [p \in { q \in DOMAIN s.vMounts : Trim(q, "/") \notin own } |->
                                  s.vMounts[p]],
                  !.vPolicies = Without(s.vPolicies, "cf-" \o id),
                  !.vRoles = Without(s.vRoles, "/auth/token/roles/cf-" \o id),
                  !.vTree = Without(s.vTree, "cf/broker/" \o id),
                  !.instances = Without(s.instances, id)]

\* A Deprovision that failed, directly followed by a Deprovision of the same
\* instance that did not, ends where a Deprovision without failures ends
\* from the state before the two.
RetriedDeprovisionsConverge ==
    \A n \in 2..(Len(hist) - 1) :
        (/\ hist[n].op = "Deprovision"
         /\ hist[n].err # ""
         /\ hist[n + 1].op = "Deprovision"
         /\ hist[n + 1].err = ""
         /\ hist[n + 1].instanceID = hist[n].instanceID)
        => hist[n + 1].state = Deprovisioned(hist[n - 1].state, hist[n].instanceID)

\* C23: if a step of Deprovision fails (unmount, token-role delete, policy
\* delete, persisted-object delete), Deprovision returns the error of that
\* step, executes none of the later steps and leaves the instance in the
\* instances index; a later retry of Deprovision with no failures reaches
\* the same end state as a Deprovision that never failed.
C23_DeprovisionFailure ==
    [][/\ \A t \in Threads :
            Fails(t, "Deprovision") =>
               /\ UNCHANGED <<vMounts, vPolicies, vRoles, vTree, vRevoked, instances, binds>>
               /\ loc'[t].err = DeprovisionErrorAt(pc[t])
               /\ loc[t].ok => loc[t].instanceID \in DOMAIN instances'
       /\ RetriedDeprovisionsConverge']_vars

\* Deprovision of an indexed instance failed at the policy, and the retry
\* has returned without error.
C23_Witness ==
    /\ Len(hist) >= 3
    /\ \E n \in 2..(Len(hist) - 1) :
         /\ hist[n].op = "Deprovision"
         /\ hist[n].err = "failed to delete policy"
         /\ hist[n].instanceID \in DOMAIN hist[n].state.instances
         /\ hist[n + 1].op = "Deprovision"
         /\ hist[n + 1].err = ""
         /\ hist[n + 1].instanceID = hist[n].instanceID


(***************************************************************************)
(* Concurrent calls of the mount coordinator                               *)
(***************************************************************************)

\* The broker after Start in front of an empty vault, with two requests to
\* come.
InitStarted ==
    /\ vMounts = [p \in {"cf/broker/"} |-> KV]
    /\ EmptyVault
    /\ instances = EmptyMap
    /\ binds = EmptyMap
    /\ running = TRUE
    /\ stopCh = 1
    /\ locks = [l \in LockNames |-> NoThread]
    /\ nextCh = 2
    /\ closes = [c \in {1} |-> 0]
    /\ pcfClient \in BOOLEAN
    /\ vaultRenewToken = FALSE
    /\ pc = [t \in Threads |-> "idle"]
    /\ loc = [t \in Threads |-> NoLocals]
    /\ renewers = <<>>
    /\ nfail = 0
    /\ ncalls = MaxCalls - ConcurrentCalls
    /\ mountLog = {}
    /\ hist = <<>>
    /\ fin = <<>>
    /\ fout = <<>>

\* Every thread makes one request, Provision or Deprovision, and keeps its
\* result.
NextOverlap ==
    \E t \in Threads :
        \/ \E i \in Range(InstanceIDs), o \in ProvisionOrgs, sp \in ProvisionSpaces :
             Provision(t, i, o, sp)
        \/ ProvisionStep(t)
        \/ \E i \in Range(InstanceIDs) : Deprovision(t, i)
        \/ DeprovisionStep(t)
        \/ CoordinatorStep(t)

SpecOverlap == InitStarted /\ [][NextOverlap]_vars

\* Invocation t is between the listing of the mount table and the last
\* request of its batch.
InCoordinator(t) == pc[t] \in {"m_list", "m_loop", "u_list", "u_loop"}

\* The number of coordinator requests of invocation t that the vault
\* accepted: all but the last one of a batch that failed.
Accepted(t) ==
    IF pc[t] = "done" /\ loc[t].err = MountError(loc[t].op) /\ loc[t].i >= 1
    THEN loc[t].i - 1
    ELSE IF loc[t].i > Len(loc[t].mounts) THEN Len(loc[t].mounts) ELSE loc[t].i - 1

\* The paths Provision t has sent a mount request for, and those of them
\* the vault has mounted for it.
MountRequested(t) ==
    IF loc[t].op # "Provision" \/ loc[t].i = 0 THEN {}
    ELSE LET last == IF pc[t] = "done" /\ loc[t].err = MountError("Provision")
                     THEN loc[t].i ELSE Accepted(t)
         IN  { Trim(Path(loc[t].mounts[n]), "/") : n \in 1..last } \ loc[t].mountPaths

MountedBy(t) ==
    IF loc[t].op # "Provision" \/ loc[t].i = 0 THEN {}
    ELSE { Trim(Path(loc[t].mounts[n]), "/") : n \in 1..Accepted(t) } \ loc[t].mountPaths

\* Invocation t sends a mount request for path in this step.
SendsMount(t, path) ==
    /\ pc[t] = "m_loop"
    /\ loc'[t].nreq = loc[t].nreq + 1
    /\ path = Trim(Path(loc[t].mounts[loc[t].i]), "/")

NextSelf ==
    \/ \E i \in Range(InstanceIDs), b \in Range(BindingIDs) : Unbind(1, i, b)
    \/ UnbindStep(1)
    \/ Stop(1)
    \/ Finish(1, FALSE)
    \/ \E r \in 1..Len(renewers) : SelfRenewerStep(r) \/ AuthRenewerStep(r)

SpecSelf == InitFair /\ [][NextSelf]_vars

SelfRenewers == { r \in 1..Len(renewers) : renewers[r].kind = "self" }

\* Renewer r leaves label in this step.
RenewerStepsFrom(r, label) == renewers[r].pc = label /\ renewers'[r].pc # label

\* What the lookup decides, and that no per-binding stop signal reaches the
\* self-renewer: part of C25 and of its amended form.
SelfRenewerLookup ==
    \A r \in SelfRenewers :
        /\ (RenewerStepsFrom(r, "lookup") /\ renewers'[r].expireTime = "null") =>
              renewers'[r].pc = "exit"
        /\ (RenewerStepsFrom(r, "lookup") /\ renewers'[r].expireTime \in {"missing", "set"}) =>
              renewers'[r].pc = "renewself"
        /\ RenewerStepsFrom(r, "select") =>
              /\ renewers[r].stopCh = NilCh
              /\ \A t \in Threads : loc[t].op # "Unbind" \/ pc'[t] = pc[t]

\* C25: if the lookup of the broker's own token returns an expire_time that
\* is present and null, the self-renewer exits at once without calling
\* renew-self; if the field is missing or non-null it calls renew-self once
\* and enters the renew loop, from which only the broker-wide stop signal or
\* the end of the streaming renewer makes it exit, never an Unbind.
C25_SelfRenewer ==
    [][/\ SelfRenewerLookup
       /\ \A r \in SelfRenewers :
            /\ RenewerStepsFrom(r, "renewself") => renewers'[r].pc = "sleep"
            /\ RenewerStepsFrom(r, "sleep") => renewers'[r].pc = "select"]_vars

\* C25 (amended): as C25, but the task enters the loop only when renew-self
\* and the renewal that opens renewAuth both succeed; when the vault refuses
\* one of them the task exits before the loop.
C25_SelfRenewerUnlessRefused ==
    [][/\ SelfRenewerLookup
       /\ \A r \in SelfRenewers :
            /\ RenewerStepsFrom(r, "renewself") =>
                  renewers'[r].pc = IF nfail' = nfail THEN "sleep" ELSE "exit"
            /\ RenewerStepsFrom(r, "sleep") =>
                  renewers'[r].pc = IF nfail' = nfail THEN "select" ELSE "exit"]_vars

\* The self-renewer found no expire_time in the lookup and is in its loop
\* after an Unbind has closed the stop channel of the binding.
C25_Witness ==
    \E r \in SelfRenewers :
        /\ renewers[r].expireTime = "missing"
        /\ renewers[r].pc = "select"
        /\ closes[2] = 1
        /\ running


(***************************************************************************)
(* Bind and the instance index                                             *)
(***************************************************************************)

\* Bind goes on after its lookup only with an instance that is in the index.
BindLooksUpIndexed ==
    [][\A t \in Threads :
         (StepsFrom(t, "b_lookup") /\ pc'[t] # "done") =>
            loc[t].instanceID \in DOMAIN instances]_vars

\* C26: a Bind(I, B) that returns successfully is preceded by a Provision or
\* a Start-time restore of I that completed successfully and has not been
\* followed by a completed Deprovision(I).  The instances index holds I from
\* the last step of such a Provision or restore to the last step of a
\* Deprovision(I), so I is in the index when Bind returns.
C26_BindAfterProvision ==
    [][\A t \in Threads :
         (StepsFrom(t, "b_save") /\ loc'[t].err = "") =>
            loc[t].instanceID \in DOMAIN instances]_vars

\* Bind has returned credentials for an instance that a Deprovision has
\* taken out of the index and out of the vault.
BoundAfterDeprovision ==
    \E t1, t2 \in Threads :
        /\ Returned(t1, "Bind")
        /\ Returned(t2, "Deprovision")
        /\ loc[t1].instanceID = loc[t2].instanceID
        /\ loc[t1].instanceID \notin DOMAIN instances
        /\ loc[t1].bindingID \in DOMAIN binds
        /\ binds[loc[t1].bindingID].ClientToken = loc[t1].token
        /\ loc[t1].accessor \notin vRevoked


(***************************************************************************)
(* A batch of the mount coordinator that fails half way                    *)
(***************************************************************************)

\* The path of entry n of the batch of invocation t.
BatchPath(t, n) == Trim(Path(loc[t].mounts[n]), "/")

\* The mount table an uninterrupted mount(S) or unmount(S) leaves from table.
MountedAll(table, S) ==
    [p \in DOMAIN table \cup { Trim(Path(S[n]), "/") \o "/" : n \in 1..Len(S) } |->
        IF p \in DOMAIN table THEN table[p]
        ELSE S[CHOOSE n \in 1..Len(S) : Trim(Path(S[n]), "/") \o "/" = p].Type]

UnmountedAll(table, S) ==
    [p \in DOMAIN table \ { Trim(Path(S[n]), "/") \o "/" : n \in 1..Len(S) } |-> table[p]]

\* A batch that failed, directly followed by the same batch without failure,
\* leaves the table of an uninterrupted call from the table before the two.
RetriedBatchConverges ==
    \A k \in 2..(Len(hist) - 1) :
        (/\ hist[k].op \in {"idempotentMount", "idempotentUnmount"}
         /\ hist[k].err # ""
         /\ hist[k + 1].op = hist[k].op
         /\ hist[k + 1].err = "")
        => hist[k + 1].state.vMounts =
              IF hist[k].op = "idempotentMount"
              THEN MountedAll(hist[k - 1].state.vMounts, hist[k].mounts)
              ELSE UnmountedAll(hist[k - 1].state.vMounts, hist[k].mounts)

\* C27: when a mount or unmount request fails in the middle of a batch, the
\* coordinator stops the batch, returns the error and leaves the mounts
\* already created or removed in place; re-running the same mount(S) or
\* unmount(S) afterwards with no failures ends in the same vault mount table
\* as an uninterrupted call.
C27_PartialBatch ==
    [][/\ \A t \in Threads :
            LET mounting == pc[t] = "m_loop"
                batch == pc[t] \in {"m_loop", "u_loop"}
            IN  /\ (batch /\ pc'[t] = "done" /\ loc'[t].err # "") =>
                      /\ UNCHANGED vMounts
                      /\ loc'[t].i = loc[t].i
                      /\ \A n \in 1..(loc[t].i - 1) : InUse(BatchPath(t, n)) = mounting
                /\ (batch /\ pc'[t] = loc[t].after /\ loc'[t].err = "") =>
                      \A n \in 1..Len(loc[t].mounts) : InUse(BatchPath(t, n)) = mounting
                /\ (batch /\ vMounts' # vMounts) =>
                      vMounts' = IF mounting
                                 THEN With(vMounts, BatchPath(t, loc[t].i) \o "/",
                                           loc[t].mounts[loc[t].i].Type)
                                 ELSE Without(vMounts, BatchPath(t, loc[t].i) \o "/")
       /\ RetriedBatchConverges']_vars

\* A mount batch of two failed at its second request with the first mount
\* made; the same batch, run again, has returned without error.
C27_Witness ==
    /\ Len(hist) >= 3
    /\ \E k \in 2..(Len(hist) - 1) :
         /\ hist[k].op = "idempotentMount"
         /\ hist[k].err # ""
         /\ hist[k].nreq = 2
         /\ hist[k].state.vMounts # hist[k - 1].state.vMounts
         /\ hist[k + 1].op = "idempotentMount"
         /\ hist[k + 1].err = ""
         /\ hist[k + 1].nreq = 1


(***************************************************************************)
(* The streaming renewer of a task                                         *)
(***************************************************************************)

\* C28: every renewer task that has attached a streaming vault renewer stops
\* it on every exit path of the loop (renewer done, per-binding stop signal,
\* broker-wide stop signal); when both stop signals are closed the task still
\* exits exactly once and stops the streaming renewer exactly once.
C28_RenewerReleased ==
    [][\A r \in 1..Len(renewers) :
         /\ renewers[r].pc = "exit" => renewers'[r] = renewers[r]
         /\ renewers[r].pc # "exit" => renewers[r].released = 0
         /\ (renewers[r].pc # "exit" /\ renewers'[r].pc = "exit") =>
               renewers'[r].released = IF renewers[r].attached THEN 1 ELSE 0]_vars

\* The renewer of the binding has left its loop with both stop signals
\* closed and has stopped its streaming renewer once.
C28_Witness ==
    \E r \in 1..Len(renewers) :
        /\ renewers[r].kind = "auth"
        /\ renewers[r].pc = "exit"
        /\ renewers[r].attached
        /\ renewers[r].released = 1
        /\ Closed(renewers[r].stopCh)
        /\ Closed(renewers[r].sel)


(***************************************************************************)
(* Renewer tasks over Stop and Start                                       *)
(***************************************************************************)

\* Renewer r waits in its loop and neither of the stop channels of its
\* select is closed: nothing the broker has done will end it.
Surviving(r) ==
    /\ renewers[r].pc = "select"
    /\ ~Closed(renewers[r].sel)
    /\ ~Closed(renewers[r].stopCh)

\* C29: a renewer task spawned before Stop never survives into the next run,
\* whatever step it is in when Start replaces the broker-wide stop channel;
\* so after Stop; Start there is at most one renewer per binding, and at most
\* one self-renewer, that goes on running.
C29_NoRenewerSurvivesRestart ==
    /\ \A r \in 1..Len(renewers) : StoppedOver(r) => ~Surviving(r)
    /\ \A b \in DOMAIN binds :
         Cardinality({ r \in TokenRenewers(binds[b].ClientToken) : Surviving(r) }) <= 1
    /\ Cardinality({ r \in 1..Len(renewers) :
                       renewers[r].kind = "self" /\ Surviving(r) }) <= 1

\* Stop and Start have returned, and two renewers of the token of binding b1
\* wait on the new broker-wide stop channel.
TwoRenewersAfterRestart ==
    /\ running
    /\ pc[1] = "idle"
    /\ closes[1] = 1
    /\ "b1" \in DOMAIN binds
    /\ Cardinality({ r \in TokenRenewers(binds["b1"].ClientToken) :
                       Surviving(r) /\ renewers[r].sel = stopCh }) = 2


(***************************************************************************)
(* Bind and Unbind of one binding at the same time                         *)
(***************************************************************************)

\* No request is in flight.
Quiescent == \A t \in Threads : pc[t] \in {"idle", "done"}

\* C30: under any interleaving of concurrent Bind(I, B) and Unbind(I, B),
\* once no operation is in flight the binds index contains B iff the
\* persisted object cf/broker/I/B exists; an Unbind that completes between
\* the persistence write and the index insertion of Bind leaves no index
\* entry for a revoked binding without persisted object.
C30_IndexMatchesPersisted ==
    Quiescent =>
        \A b \in Range(BindingIDs) :
            b \in DOMAIN binds <=> \E e \in PersistedBindings : e[2] = b

\* Bind("i1", "b2") and Unbind("i1", "b2") have both returned without error;
\* b2 is in the index with the token Bind returned, the token's accessor is
\* revoked and there is no object cf/broker/i1/b2.
RevokedBindingIndexed ==
    \E t1, t2 \in Threads :
        /\ Returned(t1, "Bind") /\ Returned(t2, "Unbind")
        /\ loc[t1].instanceID = "i1" /\ loc[t2].instanceID = "i1"
        /\ loc[t1].bindingID = "b2" /\ loc[t2].bindingID = "b2"
        /\ "b2" \in DOMAIN binds
        /\ binds["b2"].ClientToken = loc[t1].token
        /\ loc[t1].accessor \in vRevoked
        /\ "cf/broker/i1/b2" \notin DOMAIN vTree

(***************************************************************************)
(* The token of a Bind that fails                                          *)
(***************************************************************************)

\* A Bind of invocation t returns an error in this step, after the vault has
\* issued it a token.
BindFailsWithToken(t) ==
    /\ pc[t] # "done"
    /\ pc'[t] = "done"
    /\ loc'[t].op = "Bind"
    /\ loc'[t].err # ""
    /\ loc'[t].token # ""

\* C31: whenever Bind returns an error after the vault has issued a token, a
\* revocation of the accessor of that token has been attempted before Bind
\* returns: the returning step is the one of the RevokeAccessor call.
C31_NoTokenLeak ==
    [][\A t \in Threads : BindFailsWithToken(t) => pc[t] = "b_revoke"]_vars

\* A Bind has returned the UnknownInstance error; the token it was issued is
\* not revoked and no renewer and no persisted object holds it.
TokenLeaked ==
    \E t \in Threads :
        /\ pc[t] = "done"
        /\ loc[t].op = "Bind"
        /\ loc[t].err = "no instance exists"
        /\ loc[t].accessor # ""
        /\ loc[t].accessor \notin vRevoked
        /\ TokenRenewers(loc[t].token) = {}
        /\ PersistedWith(loc[t].token) = {}

\* The only error return of Bind that leaves the token without a revocation
\* attempt is the one of the instance lookup.
BindLeaksOnlyOnLookup ==
    [][\A t \in Threads :
         BindFailsWithToken(t) =>
            \/ pc[t] = "b_revoke"
            \/ pc[t] = "b_lookup" /\ loc'[t].err = "no instance exists"]_vars

(***************************************************************************)
(* A Start that fails                                                      *)
(***************************************************************************)

\* The renewer tasks spawned under the broker-wide stop channel ch, that is by
\* the Start that made ch.
SpawnedUnder(ch) == { r \in 1..Len(renewers) : renewers[r].born = ch }

\* Renewers r and q renew the same token: both the broker's own, or both the
\* token of one binding.
SameToken(r, q) ==
    /\ renewers[r].kind = renewers[q].kind
    /\ renewers[r].token = renewers[q].token

\* C32: a Start that returns an error leaves no background task running, and
\* a later Start that succeeds does not add a second renewer of a binding, or
\* a second self-renewer, next to one spawned by the failed attempt.
C32_FailedStartLeavesNoTask ==
    \A t \in Threads :
        /\ (pc[t] = "done" /\ loc[t].op = "Start" /\ loc[t].err # "") =>
              \A r \in SpawnedUnder(stopCh) : ~Running(r)
        /\ Returned(t, "Start") =>
              \A r, q \in 1..Len(renewers) :
                  (Running(r) /\ Running(q) /\ SameToken(r, q))
                      => renewers[r].born = renewers[q].born

\* A Start has returned an error with the broker not running, and the
\* self-renewer and a renewer of a binding it spawned are running.
FailedStartLeftTasks ==
    /\ pc[1] = "done"
    /\ loc[1].op = "Start"
    /\ loc[1].err # ""
    /\ ~running
    /\ \E r, q \in SpawnedUnder(stopCh) :
          /\ Running(r) /\ renewers[r].kind = "self"
          /\ Running(q) /\ renewers[q].kind = "auth"

\* A Start has failed and the next has succeeded: two self-renewers run, one
\* spawned by each.
TwoSelfRenewersAfterFailedStart ==
    /\ Returned(1, "Start")
    /\ running
    /\ \E r, q \in SelfRenewers :
          /\ Running(r) /\ Running(q)
          /\ renewers[r].born # renewers[q].born
          /\ renewers[q].born = stopCh

\* The same for the token of a binding: the renewer of the failed attempt and
\* the one of the Start that succeeded both run.
TwoBindingRenewersAfterFailedStart ==
    /\ Returned(1, "Start")
    /\ running
    /\ \E r, q \in 1..Len(renewers) :
          /\ renewers[r].kind = "auth" /\ SameToken(r, q)
          /\ Running(r) /\ Running(q)
          /\ renewers[r].born # renewers[q].born
          /\ renewers[q].born = stopCh

\* A Start that succeeds at the first attempt spawns every renewer under its
\* own stop channel: the tasks of another attempt come from a failed one.
FirstStartSpawnsUnderOwnChannel ==
    (Returned(1, "Start") /\ hist = <<>> /\ running) =>
        \A r \in 1..Len(renewers) : renewers[r].born = stopCh

(***************************************************************************)
(* The bindings of an instance that is deprovisioned                       *)
(***************************************************************************)

\* One client, one request at a time, to a broker that serves instance i1
\* with binding b1: further bindings are made, instances deprovisioned, the
\* broker stopped and started again.
NextDeprovisioned ==
    \/ \E i \in Range(InstanceIDs), b \in Range(BindingIDs) : Bind(1, i, b)
    \/ BindStep(1)
    \/ \E i \in Range(InstanceIDs) : Deprovision(1, i)
    \/ DeprovisionStep(1)
    \/ CoordinatorStep(1)
    \/ Stop(1)
    \/ CallStart(1)
    \/ StartStep(1)
    \/ Finish(1, TRUE)

SpecDeprovisioned == InitCycle /\ [][NextDeprovisioned]_vars

\* The tokens the vault has issued for instance id: the one of the binding
\* the broker starts with, and those of the Binds that have returned since.
IssuedFor(id) ==
    (IF id = "i1" THEN {Tok(1)} ELSE {})
    \cup { hist[n].token : n \in { m \in 1..Len(hist) :
                                      /\ hist[m].op = "Bind"
                                      /\ hist[m].instanceID = id
                                      /\ hist[m].err = "" } }

\* The persisted binding objects under cf/broker/<id>/.
PersistedUnder(id) ==
    { p \in DOMAIN vTree : \E b \in Range(BindingIDs) :
                              p = "cf/broker/" \o id \o "/" \o b }

\* A binding of instance id is live: an entry of the binds index, a persisted
\* object, or a running renewer holds a token issued for id.
LiveBindings(id) ==
    \/ \E b \in DOMAIN binds : binds[b].ClientToken \in IssuedFor(id)
    \/ PersistedUnder(id) # {}
    \/ \E r \in 1..Len(renewers) :
          /\ renewers[r].kind = "auth"
          /\ renewers[r].token \in IssuedFor(id)
          /\ Running(r)

\* The instances whose Deprovision has returned without error.
DeprovisionedIDs ==
    { hist[n].instanceID : n \in { m \in 1..Len(hist) :
                                      hist[m].op = "Deprovision" /\ hist[m].err = "" } }

\* C33: after a successful Deprovision(I) no binding created under I remains
\* live: no binds-index entry, no persisted object under cf/broker/I/ and no
\* running renewer of a token issued for I; and a later Start restores no
\* binding and spawns no renewer for a deprovisioned instance.
C33_DeprovisionEndsBindings ==
    /\ Returned(1, "Deprovision") => ~LiveBindings(loc[1].instanceID)
    /\ Returned(1, "Start") =>
          \A id \in DeprovisionedIDs :
              /\ \A b \in DOMAIN binds : binds[b].ClientToken \notin IssuedFor(id)
              /\ \A r \in SpawnedUnder(stopCh) :
                    renewers[r].token \notin IssuedFor(id)

\* Deprovision("i1") has returned without error: the instance is out of the
\* index and its object is gone, and binding b1 is in the binds index, its
\* object persisted and its renewer running.
BindingOutlivesInstance ==
    /\ Returned(1, "Deprovision")
    /\ loc[1].instanceID = "i1"
    /\ "i1" \notin DOMAIN instances
    /\ "cf/broker/i1" \notin DOMAIN vTree
    /\ "b1" \in DOMAIN binds
    /\ "cf/broker/i1/b1" \in DOMAIN vTree
    /\ \E r \in TokenRenewers(binds["b1"].ClientToken) : Running(r)

\* After Deprovision("i1") and Stop, Start has restored binding b1 and spawned
\* a renewer for its token, with no instance i1 in the index.
RestoredAfterDeprovision ==
    /\ Returned(1, "Start")
    /\ "i1" \in DeprovisionedIDs
    /\ "i1" \notin DOMAIN instances
    /\ "b1" \in DOMAIN binds
    /\ \E r \in SpawnedUnder(stopCh) :
          /\ stopCh # 1
          /\ renewers[r].token = binds["b1"].ClientToken
          /\ renewers[r].stopCh = binds["b1"].stopCh

\* Deprovision leaves the binds index, the persisted binding objects, the
\* renewers and every stop channel as they were.
DeprovisionTouchesNoBinding ==
    [][(loc[1].op = "Deprovision" /\ pc[1] # "done")
          => UNCHANGED <<binds, renewers, closes, vRevoked>>
             /\ \A id \in Range(InstanceIDs) : PersistedUnder(id)' = PersistedUnder(id)]_vars

(***************************************************************************)
(* Renewers and the stop channels of the binds index                       *)
(***************************************************************************)

\* Renewer r of a binding is running, its own stop channel is open, and no
\* entry of the binds index holds that channel: no Unbind can close it.
Orphan(r) ==
    /\ renewers[r].kind = "auth"
    /\ Running(r)
    /\ ~Closed(renewers[r].stopCh)
    /\ \A b \in DOMAIN binds : binds[b].stopCh # renewers[r].stopCh

\* C34: no orphan renewers.  Whenever no request is between the spawn of a
\* renewer and the store of its entry, every running per-binding renewer
\* listens on the stop channel stored in the binds-index entry of its binding;
\* a second Bind or a repeated restore of a binding-id does not overwrite the
\* entry and leave the first renewer with an unreachable stop channel.
C34_NoOrphanRenewers ==
    Quiescent => \A r \in 1..Len(renewers) : ~Orphan(r)

\* A second Bind of binding-id b1 has returned its credentials: the entry of
\* b1 holds the channel of the second renewer, and the first renewer, whose
\* token is not revoked, is an orphan.
OrphanAfterSecondBind ==
    /\ Returned(1, "Bind")
    /\ loc[1].bindingID = "b1"
    /\ pc[2] = "idle"
    /\ binds["b1"].stopCh = loc[1].info.stopCh
    /\ Orphan(1)
    /\ renewers[1].accessor \notin vRevoked

\* Start has restored one binding twice: two renewers of its token run, and
\* the one spawned first is an orphan.
OrphanAfterRestore ==
    /\ Returned(1, "Start")
    /\ \E r, q \in 1..Len(renewers) :
          /\ r < q
          /\ SameToken(r, q)
          /\ renewers[r].born = renewers[q].born
          /\ Orphan(r)
          /\ \E b \in DOMAIN binds : binds[b].stopCh = renewers[q].stopCh

\* The stores that make orphans: a step that replaces the stop channel of an
\* entry of the binds index is the store of Bind or of restoreBind.
EntryOverwrittenByStore ==
    [][\A b \in DOMAIN binds :
          (b \in DOMAIN binds' /\ binds'[b].stopCh # binds[b].stopCh) =>
              \E t \in Threads : pc[t] \in {"b_save", "s_bind_store"}
                                 /\ loc[t].bindingID = b /\ pc'[t] # pc[t]]_vars

=============================================================================
